---------------------------- MODULE Spec2Model ----------------------------
(***************************************************************************)
(* Octopus Energy Spain integration for Home Assistant.                    *)
(*                                                                         *)
(* The repository holds two generations of the integration:                *)
(*   src/*.py                              the selective-refresh version   *)
(*   src/custom_components/octopus_ev_spain the single-interval version    *)
(* Each part of the program is modelled by its own group of variables and  *)
(* its own specification; a specification leaves the other groups idle.    *)
(***************************************************************************)
EXTENDS Integers, Sequences, FiniteSets, TLC

VARIABLES
    \* ---- tariff price rule (coordinator.py / sensor.py) ----
    dt,              \* the datetime the rule is asked about: [weekday, hour]
    rates,           \* [peak, standard, valley], in thousandths of EUR/kWh
    price,           \* what each copy of the rule returned (None: not called yet)
    \* ---- which generation of the integration is installed ----
    generation,      \* "selective" (src/*.py) or "single" (src/custom_components/...)
    driver,          \* who calls the API client: "callers" (any code) or "coordinator"
    \* ---- OctopusSpainAPI (api.py) and the backend it talks to ----
    _token,          \* self._token
    _client,         \* self._client: None, or the authorization header of the client
    issued,          \* backend: how many tokens it has issued so far
    granted,         \* history: the token of the most recent successful login
    frame,           \* per caller: the API method it is running, and its call on the wire
    \* ---- device lookup helpers of the coordinator ----
    cache,           \* self.data["devices"]: <<account, device list>> in insertion order
    query,           \* the device id asked for
    found,           \* what each helper returned (None: not called yet)
    \* ---- OctopusSpainDataUpdateCoordinator (coordinator.py) ----
    clock,           \* wall clock, in minutes
    accounts,        \* self.accounts
    data,            \* self.data: None until a cycle has returned
    last_update,     \* self._last_devices_update, _last_account_update, _last_measurements_update
    cycle,           \* history: what the most recent update cycle did
    cycles,          \* how many update cycles have run
    faults,          \* backend: how many API calls it has failed so far
    \* ---- the coroutines of the single-interval version ----
    update,          \* the update cycle: where it stands and the data it is building
    handler,         \* a service handler or entity action: where it stands
    inflight,        \* the API calls awaiting their answer
    \* ---- what the host (Home Assistant) runs besides the coordinator ----
    setup,           \* async_setup_entry: where it stands, what it stored and registered
    flow,            \* the config flow's user step: where it stands, what it showed
    \* ---- the preference entities of a charger (select.py, number.py) ----
    prefs,           \* backend: the charging schedules of each charger
    mutations,       \* history: the preference mutations the entities have sent
    time_str,        \* the time _get_closest_valid_time is asked about
    closest          \* what _get_closest_valid_time returned (None: not called yet)

tariffVars == <<dt, rates, price>>
apiVars == <<_token, _client, issued, granted, frame>>
lookupVars == <<cache, query, found>>
coordVars == <<clock, accounts, data, last_update, cycle, cycles, faults>>
singleVars == <<update, handler, inflight>>
installVars == <<generation, driver>>
hostVars == <<setup, flow>>
entityVars == <<prefs, mutations, time_str, closest>>

vars == <<tariffVars, installVars, apiVars, lookupVars, coordVars, singleVars, hostVars,
          entityVars>>

\* What the actions of one part leave alone.
tariffRest == <<installVars, apiVars, lookupVars, coordVars, singleVars, hostVars, entityVars>>
apiRest == <<installVars, tariffVars, lookupVars, coordVars, singleVars, hostVars, entityVars>>
lookupRest == <<installVars, tariffVars, apiVars, coordVars, singleVars, hostVars, entityVars>>
selectiveRest == <<installVars, tariffVars, apiVars, lookupVars, singleVars, hostVars, entityVars>>
singleRest == <<installVars, tariffVars, lookupVars, hostVars, entityVars, clock, last_update,
                frame>>

\* Python's None, and a present value v: an optional is a sequence of length 0 or 1.
None == <<>>
Some(v) == <<v>>
Get(o) == o[1]

\* The coroutines that may be using the API client at the same time.
Callers == {"caller1", "caller2"}

\* A caller that is running no API method.
IdleFrame ==
    [method |-> "idle", todo |-> <<>>, wire |-> None, sent |-> 0,
     result |-> None, authed |-> FALSE]

\* OctopusSpainAPI.__init__: no token, no client
ApiIdle ==
    /\ _token = None
    /\ _client = None
    /\ issued = 0
    /\ granted = None
    /\ frame = [c \in Callers |-> IdleFrame]
    /\ driver = "callers"

\* A call position of the update cycle: the method, the account index, the device index.
At(op, k, j) == [op |-> op, k |-> k, j |-> j]

\* The update cycle is not running.
IdleUpdate == [pc |-> "idle", at |-> At("-", 0, 0), building |-> None]

\* No handler has been called.
IdleHandler ==
    [pc |-> "idle", kind |-> "-", device |-> "-", account |-> None, at |-> "-",
     mutation |-> "none", refresh |-> "none", result |-> None, calls |-> <<>>]

\* OctopusSpainDataUpdateCoordinator.__init__: no accounts, no data, no update yet
CoordIdle ==
    /\ clock = 0
    /\ accounts = <<>>
    /\ data = None
    /\ last_update = [devices |-> None, account |-> None, measurements |-> None]
    /\ cycle = None
    /\ cycles = 0
    /\ faults = 0
    /\ update = IdleUpdate
    /\ handler = IdleHandler
    /\ inflight = {}

\* async_setup_entry has not been called.
IdleSetup ==
    [pc |-> "idle", login |-> "none", viewer |-> "none", refresh |-> "none",
     platforms |-> "none", stored |-> FALSE, services |-> {}, outcome |-> None]

\* No credentials have been submitted to the config flow.
IdleFlow ==
    [pc |-> "idle", submits |-> 0, login |-> "none", viewer |-> "none", err |-> None,
     errors |-> None, entry |-> FALSE, outcome |-> None]

\* The host has neither set the entry up nor run the config flow.
HostIdle ==
    /\ setup = IdleSetup
    /\ flow = IdleFlow

\* A time of day as the backend and the entities write it: the characters
\* of "HH:MM".
Time1030 == <<"1", "0", ":", "3", "0">>

\* const.py: DAYS_OF_WEEK
DAYS_OF_WEEK ==
    <<"MONDAY", "TUESDAY", "WEDNESDAY", "THURSDAY", "FRIDAY", "SATURDAY", "SUNDAY">>

\* for day in DAYS_OF_WEEK: schedules.append({"dayOfWeek": day, "time": ..., "max": ...})
Schedules(time, max) ==
    [i \in 1..Len(DAYS_OF_WEEK) |->
        [dayOfWeek |-> DAYS_OF_WEEK[i], time |-> time, max |-> max]]

\* What the backend holds for a charger nobody has configured: charge to 80
\* per cent by 10:30 on every day.
BackendDefaults == Schedules(Time1030, 80)

\* The chargers of the backend.
Chargers == {"d1", "d3", "d4"}

\* No entity has sent a mutation, and the select entity was asked nothing.
EntityIdle ==
    /\ prefs = [d \in Chargers |-> BackendDefaults]
    /\ mutations = <<>>
    /\ time_str = Time1030
    /\ closest = None

\* The lookup helpers have been asked nothing.
LookupIdle ==
    /\ cache = <<>>
    /\ query = "d1"
    /\ found = [device |-> None, account |-> None]

(***************************************************************************)
(* Spanish time-of-use tariff                                              *)
(***************************************************************************)

\* datetime.weekday(): 0 = Monday .. 6 = Sunday; datetime.hour: 0..23
Weekdays == 0..6
Hours == 0..23
\* The rates named in the coordinator's comments (0.197 / 0.122 / 0.084).
Rates == {197, 122, 84}

\* The rule with a weekend test that misses Saturday.
_get_spanish_tariff_price_sat(d, price_peak, price_standard, price_valley) ==
    LET weekday == d.weekday
        hour == d.hour
    IN  IF weekday > 5 THEN price_valley
        ELSE IF (10 <= hour /\ hour < 14) \/ (18 <= hour /\ hour < 22)
             THEN price_peak
        ELSE IF (8 <= hour /\ hour < 10) \/ (14 <= hour /\ hour < 18)
                  \/ (22 <= hour /\ hour < 24)
             THEN price_standard
        ELSE price_valley

\* OctopusSpainDataUpdateCoordinator._get_spanish_tariff_price
_get_spanish_tariff_price(d, price_peak, price_standard, price_valley) ==
    LET weekday == d.weekday
        hour == d.hour
    IN  IF weekday >= 5 THEN price_valley
        ELSE IF (10 <= hour /\ hour < 14) \/ (18 <= hour /\ hour < 22)
             THEN price_peak
        ELSE IF (8 <= hour /\ hour < 10) \/ (14 <= hour /\ hour < 18)
                  \/ (22 <= hour /\ hour < 24)
             THEN price_standard
        ELSE price_valley

\* OctopusCurrentPriceEVSensor._calculate_spanish_price
EVSensor_calculate_spanish_price(d, price_peak, price_standard, price_valley) ==
    LET weekday == d.weekday
        hour == d.hour
    IN  IF weekday >= 5 THEN price_valley
        ELSE IF (10 <= hour /\ hour < 14) \/ (18 <= hour /\ hour < 22)
             THEN price_peak
        ELSE IF (8 <= hour /\ hour < 10) \/ (14 <= hour /\ hour < 18)
                  \/ (22 <= hour /\ hour < 24)
             THEN price_standard
        ELSE price_valley

\* OctopusCurrentPriceSensor._calculate_spanish_price
PriceSensor_calculate_spanish_price(d, price_peak, price_standard, price_valley) ==
    LET weekday == d.weekday
        hour == d.hour
    IN  IF weekday >= 5 THEN price_valley
        ELSE IF (10 <= hour /\ hour < 14) \/ (18 <= hour /\ hour < 22)
             THEN price_peak
        ELSE IF (8 <= hour /\ hour < 10) \/ (14 <= hour /\ hour < 18)
                  \/ (22 <= hour /\ hour < 24)
             THEN price_standard
        ELSE price_valley

PriceCopies == {"coordinator", "ev_sensor", "price_sensor"}

TariffIdle ==
    /\ dt = [weekday |-> 0, hour |-> 0]
    /\ rates = [peak |-> 197, standard |-> 122, valley |-> 84]
    /\ price = [c \in PriceCopies |-> None]

InitTariff ==
    /\ dt \in [weekday : Weekdays, hour : Hours]
    /\ rates \in [peak : Rates, standard : Rates, valley : Rates]
    /\ price = [c \in PriceCopies |-> None]
    /\ generation = "single"
    /\ ApiIdle
    /\ LookupIdle
    /\ CoordIdle
    /\ HostIdle
    /\ EntityIdle

\* _generate_hourly_prices_from_tariff asks the coordinator's rule
CoordinatorPrice ==
    /\ price["coordinator"] = None
    /\ price' = [price EXCEPT !["coordinator"] =
                    Some(_get_spanish_tariff_price(dt, rates.peak, rates.standard, rates.valley))]
    /\ UNCHANGED <<dt, rates, tariffRest>>

\* OctopusCurrentPriceEVSensor._get_current_price, the fallback branch
EVSensorPrice ==
    /\ price["ev_sensor"] = None
    /\ price' = [price EXCEPT !["ev_sensor"] =
                    Some(EVSensor_calculate_spanish_price(dt, rates.peak, rates.standard, rates.valley))]
    /\ UNCHANGED <<dt, rates, tariffRest>>

\* OctopusCurrentPriceSensor._get_current_price, the fallback branch
PriceSensorPrice ==
    /\ price["price_sensor"] = None
    /\ price' = [price EXCEPT !["price_sensor"] =
                    Some(PriceSensor_calculate_spanish_price(dt, rates.peak, rates.standard, rates.valley))]
    /\ UNCHANGED <<dt, rates, tariffRest>>

NextTariff ==
    \/ CoordinatorPrice
    \/ EVSensorPrice
    \/ PriceSensorPrice

SpecTariff == InitTariff /\ [][NextTariff]_vars

(***************************************************************************)
(* OctopusSpainAPI                                                         *)
(*                                                                         *)
(* A method is a straight line of primitive GraphQL calls.  Code between   *)
(* two awaits runs without interruption on the event loop, so one action   *)
(* is: a response arrives, and the method runs on to its next request or   *)
(* to its end.                                                             *)
(***************************************************************************)

\* How many logins the backend answers with a fresh token.
MaxLogins == 2

\* One primitive call of a method: the query it sends, whether it stands in
\* a try block whose except clause only logs, and which device of the
\* enclosing loop it belongs to.
Step(op, caught, grp) == [op |-> op, caught |-> caught, grp |-> grp]

\* custom_components/octopus_ev_spain/api.py: the methods that send one query
PrimitivesSingle ==
    {"get_user_info", "get_account_list", "get_ledgers", "get_account_properties",
     "get_smart_flex_devices", "get_smart_flex_device_states",
     "get_smart_flex_device_state", "get_smart_flex_device_preferences",
     "get_smart_flex_device_alerts", "get_smart_flex_charge_history",
     "get_meters_for_property", "flex_planned_dispatches",
     "flex_update_boost_charge"}

\* custom_components/octopus_ev_spain/api.py: the methods built from others
CompositesSingle ==
    {"get_smart_usage", "start_boost_charge", "stop_boost_charge",
     "get_viewer_info", "get_devices", "get_account_info"}

\* src/api.py: the methods that send one query
PrimitivesSelective ==
    {"get_viewer_info", "get_devices", "get_account_info",
     "get_property_measurements", "get_flex_planned_dispatches",
     "update_boost_charge"}

\* src/api.py: the methods built from others
CompositesSelective == {"start_boost_charge", "stop_boost_charge"}

Primitives(gen) ==
    IF gen = "single" THEN PrimitivesSingle ELSE PrimitivesSelective

QueryMethods(gen) ==
    IF gen = "single" THEN PrimitivesSingle \cup CompositesSingle
    ELSE PrimitivesSelective \cup CompositesSelective

\* get_devices with its first query moved inside the try block.
get_devices_prog_caught == <<Step("get_smart_flex_devices", TRUE, 0)>>

\* OctopusSpainAPI.get_devices: the device query stands before the loop and
\* outside its try block
get_devices_prog == <<Step("get_smart_flex_devices", FALSE, 0)>>

\* The calls a method makes, as far as they are known when it is invoked.
Prog(gen, m) ==
    IF m \in Primitives(gen) THEN <<Step(m, FALSE, 0)>>
    ELSE IF gen = "selective" THEN
        \* start_boost_charge / stop_boost_charge
        <<Step("update_boost_charge", FALSE, 0)>>
    ELSE CASE m = "get_viewer_info" ->
                <<Step("get_user_info", FALSE, 0), Step("get_account_list", FALSE, 0)>>
           [] m = "get_account_info" ->
                <<Step("get_ledgers", FALSE, 0), Step("get_account_properties", FALSE, 0)>>
           [] m = "get_smart_usage" ->
                <<Step("get_meters_for_property", FALSE, 0), Step("get_smart_usage", FALSE, 0)>>
           [] m = "get_devices" -> get_devices_prog
           [] OTHER ->
                \* start_boost_charge / stop_boost_charge
                <<Step("flex_update_boost_charge", FALSE, 0)>>

\* The device lists the backend may answer get_smart_flex_devices with.
DeviceTypeLists ==
    {<<>>, <<"SmartFlexChargePoint">>, <<"SmartFlexVehicle", "SmartFlexChargePoint">>}

\* get_devices, the loop body for the i-th device of the answer
EnhanceDevice(types, i) ==
    <<Step("get_smart_flex_device_state", TRUE, i)>>
    \o (IF types[i] = "SmartFlexChargePoint"
        THEN <<Step("get_smart_flex_device_preferences", TRUE, i),
               Step("get_smart_flex_charge_history", TRUE, i)>>
        ELSE <<>>)

RECURSIVE EnhanceFrom(_, _)
\* get_devices, the loop over the devices of the answer
EnhanceFrom(types, i) ==
    IF i > Len(types) THEN <<>>
    ELSE EnhanceDevice(types, i) \o EnhanceFrom(types, i + 1)

\* What is left of a try block's loop iteration is skipped by its except clause.
RECURSIVE SkipGroup(_, _)
SkipGroup(todo, grp) ==
    IF todo # <<>> /\ Head(todo).grp = grp /\ Head(todo).caught
    THEN SkipGroup(Tail(todo), grp)
    ELSE todo

\* The method runs until it awaits a response or ends: every primitive first
\* tests self._client ("Not authenticated"), then sends with that client.
RECURSIVE Run(_)
Run(f) ==
    IF f.todo = <<>> THEN [f EXCEPT !.result = Some("ok")]
    ELSE IF _client = None
         THEN IF Head(f.todo).caught
              THEN Run([f EXCEPT !.todo = SkipGroup(f.todo, Head(f.todo).grp)])
              ELSE [f EXCEPT !.result = Some("Not authenticated"), !.todo = <<>>]
    ELSE [f EXCEPT !.wire = Some([op |-> Head(f.todo).op, hdr |-> _client,
                                  latest |-> granted]),
                   !.sent = @ + 1]

\* A primitive that sends its request once more before it raises.
Raised_retry(f, err) ==
    IF f.sent < 2
    THEN [f EXCEPT !.sent = @ + 1]
    ELSE [f EXCEPT !.wire = None, !.result = Some(err), !.todo = <<>>]

\* A primitive raised err after its response arrived.
Raised(f, err) ==
    IF Head(f.todo).caught
    THEN Run([f EXCEPT !.wire = None, !.todo = SkipGroup(f.todo, Head(f.todo).grp)])
    ELSE [f EXCEPT !.wire = None, !.result = Some(err), !.todo = <<>>]

\* A caller invokes a query or mutation method.
Invoke(c, m) ==
    /\ frame[c].method = "idle"
    /\ frame' = [frame EXCEPT ![c] =
                    Run([method |-> m, todo |-> Prog(generation, m), wire |-> None,
                         sent |-> 0, result |-> None, authed |-> granted # None])]
    /\ UNCHANGED <<_token, _client, issued, granted, apiRest>>

\* The backend answers a query: with data, with data that holds no item,
\* with "errors", or the transport fails.
Response(c, outcome, types) ==
    /\ frame[c].wire # None
    /\ frame[c].method # "login"
    /\ LET f == frame[c]
           op == Head(f.todo).op
       IN  frame' = [frame EXCEPT ![c] =
              CASE outcome = "errors" -> Raised(f, "GraphQL errors")
                [] outcome = "exception" -> Raised(f, "transport error")
                [] outcome = "empty" /\ f.method = "get_smart_usage"
                                     /\ op = "get_meters_for_property" ->
                       Raised(f, "No electricity supply point found for property")
                [] f.method = "get_devices" /\ op = "get_smart_flex_devices" ->
                       Run([f EXCEPT !.wire = None,
                                     !.todo = IF outcome = "empty" THEN <<>>
                                              ELSE EnhanceFrom(types, 1)])
                [] OTHER -> Run([f EXCEPT !.wire = None, !.todo = Tail(f.todo)])]
    /\ UNCHANGED <<_token, _client, issued, granted, apiRest>>

\* OctopusSpainAPI.login up to its await: the mutation goes out on a client
\* without headers.
LoginCall(c) ==
    /\ frame[c].method = "idle"
    /\ issued < MaxLogins
    /\ frame' = [frame EXCEPT ![c] =
                    [method |-> "login", todo |-> <<>>,
                     wire |-> Some([op |-> "obtainKrakenToken", hdr |-> None,
                                    latest |-> granted]),
                     sent |-> 1, result |-> None, authed |-> granted # None]]
    /\ UNCHANGED <<_token, _client, issued, granted, apiRest>>

\* login that builds the authenticated client only when there is none yet.
LoginClient_stale(tok) == IF _client = None THEN Some(tok) ELSE _client

\* login: self._client = GraphqlClient(headers={"authorization": self._token})
LoginClient(tok) == Some(tok)

\* OctopusSpainAPI.login after its await.
LoginResponse(c, outcome) ==
    /\ frame[c].wire # None
    /\ frame[c].method = "login"
    /\ IF outcome = "ok"
       THEN /\ issued' = issued + 1
            /\ _token' = Some(issued + 1)
            /\ _client' = LoginClient(issued + 1)
            /\ granted' = Some(issued + 1)
            /\ frame' = [frame EXCEPT ![c].wire = None, ![c].result = Some("True")]
       ELSE /\ frame' = [frame EXCEPT ![c].wire = None, ![c].result = Some("False")]
            /\ UNCHANGED <<_token, _client, issued, granted>>
    /\ UNCHANGED apiRest

\* The caller takes the method's return value or exception.
Return(c) ==
    /\ frame[c].result # None
    /\ frame' = [frame EXCEPT ![c] = IdleFrame]
    /\ UNCHANGED <<_token, _client, issued, granted, apiRest>>

InitApi ==
    /\ TariffIdle
    /\ generation \in {"selective", "single"}
    /\ ApiIdle
    /\ LookupIdle
    /\ CoordIdle
    /\ HostIdle
    /\ EntityIdle

NextApi ==
    \/ \E c \in Callers : \E m \in QueryMethods(generation) : Invoke(c, m)
    \/ \E c \in Callers : \E o \in {"ok", "empty", "errors", "exception"} :
          \E types \in DeviceTypeLists : Response(c, o, types)
    \/ \E c \in Callers : LoginCall(c)
    \/ \E c \in Callers : \E o \in {"ok", "errors", "exception"} : LoginResponse(c, o)
    \/ \E c \in Callers : Return(c)

SpecApi == InitApi /\ [][NextApi]_vars

(***************************************************************************)
(* Device lookup helpers                                                   *)
(*                                                                         *)
(* self.data["devices"] maps an account number to the list of its devices; *)
(* a dict is walked in insertion order.                                    *)
(***************************************************************************)

\* How many devices one account's list holds at most.
MaxDevices == 2

AccountNumbers == <<"A1", "A2">>
\* The ids a cached device may carry, and the ids a caller may ask for.
CachedIds == {"d1", "d2"}
QueryIds == {"d1", "d2", "d3"}
\* Two cached devices with one id are told apart by their stamp.
CachedDevices == [id : CachedIds, stamp : {1, 2}]

DeviceLists == UNION {[1..n -> CachedDevices] : n \in 0..MaxDevices}

\* The caches holding one account or two.
DeviceCaches ==
    {<<<<AccountNumbers[1], l>>>> : l \in DeviceLists}
    \cup {<<<<AccountNumbers[1], l1>>, <<AccountNumbers[2], l2>>>> :
             l1 \in DeviceLists, l2 \in DeviceLists}

RECURSIVE FirstWithId(_, _, _)
\* for device in devices: if device.get("id") == device_id: return device
FirstWithId(devices, device_id, i) ==
    IF i > Len(devices) THEN None
    ELSE IF devices[i].id = device_id THEN Some(devices[i])
    ELSE FirstWithId(devices, device_id, i + 1)

RECURSIVE DeviceFrom(_, _, _)
DeviceFrom(devs, device_id, k) ==
    IF k > Len(devs) THEN None
    ELSE IF FirstWithId(devs[k][2], device_id, 1) # None
         THEN FirstWithId(devs[k][2], device_id, 1)
    ELSE DeviceFrom(devs, device_id, k + 1)

RECURSIVE AccountFrom(_, _, _)
AccountFrom(devs, device_id, k) ==
    IF k > Len(devs) THEN None
    ELSE IF FirstWithId(devs[k][2], device_id, 1) # None THEN Some(devs[k][1])
    ELSE AccountFrom(devs, device_id, k + 1)

\* A lookup that gives up after the first account.
async_get_device_data_first(devs, device_id) ==
    IF devs = <<>> THEN None ELSE FirstWithId(devs[1][2], device_id, 1)

\* custom_components/.../coordinator.py: async_get_device_data
async_get_device_data(devs, device_id) == DeviceFrom(devs, device_id, 1)

\* custom_components/.../coordinator.py: async_get_account_for_device
async_get_account_for_device(devs, device_id) == AccountFrom(devs, device_id, 1)

\* src/coordinator.py: async_get_device_data
async_get_device_data_selective(devs, device_id) == DeviceFrom(devs, device_id, 1)

\* src/coordinator.py: async_get_account_for_device
async_get_account_for_device_selective(devs, device_id) == AccountFrom(devs, device_id, 1)

InitLookup ==
    /\ TariffIdle
    /\ ApiIdle
    /\ CoordIdle
    /\ HostIdle
    /\ EntityIdle
    /\ generation \in {"selective", "single"}
    /\ cache \in DeviceCaches
    /\ query \in QueryIds
    /\ found = [device |-> None, account |-> None]

\* A caller awaits async_get_device_data(query).
GetDeviceData ==
    /\ found.device = None
    /\ found' = [found EXCEPT !.device =
                    Some(IF generation = "single"
                         THEN async_get_device_data(cache, query)
                         ELSE async_get_device_data_selective(cache, query))]
    /\ UNCHANGED <<cache, query, lookupRest>>

\* A caller awaits async_get_account_for_device(query).
GetAccountForDevice ==
    /\ found.account = None
    /\ found' = [found EXCEPT !.account =
                    Some(IF generation = "single"
                         THEN async_get_account_for_device(cache, query)
                         ELSE async_get_account_for_device_selective(cache, query))]
    /\ UNCHANGED <<cache, query, lookupRest>>

NextLookup ==
    \/ GetDeviceData
    \/ GetAccountForDevice

SpecLookup == InitLookup /\ [][NextLookup]_vars

(***************************************************************************)
(* Exception texts                                                         *)
(*                                                                         *)
(* str(err) is a sequence of characters; the coordinators classify an      *)
(* exception by substring tests on it and on its lower-cased form.         *)
(***************************************************************************)

UpperCase == <<"A", "B", "C", "D", "E", "F", "G", "H", "I", "J", "K", "L", "M",
               "N", "O", "P", "Q", "R", "S", "T", "U", "V", "W", "X", "Y", "Z">>
LowerCase == <<"a", "b", "c", "d", "e", "f", "g", "h", "i", "j", "k", "l", "m",
               "n", "o", "p", "q", "r", "s", "t", "u", "v", "w", "x", "y", "z">>

\* str.lower(), one character
LowerChar(ch) ==
    IF \E i \in 1..26 : UpperCase[i] = ch
    THEN LowerCase[CHOOSE i \in 1..26 : UpperCase[i] = ch]
    ELSE ch

\* str.lower()
Lower(text) == [i \in 1..Len(text) |-> LowerChar(text[i])]

\* pat in text
Contains(text, pat) ==
    \E i \in 1..(Len(text) - Len(pat) + 1) :
        \A j \in 1..Len(pat) : text[i + j - 1] = pat[j]

\* api.py: raise Exception("Not authenticated")
TxtNotAuthenticated ==
    <<"N","o","t"," ","a","u","t","h","e","n","t","i","c","a","t","e","d">>

\* coordinator.py: ConfigEntryAuthFailed("Login failed")
TxtLoginFailed ==
    <<"L","o","g","i","n"," ","f","a","i","l","e","d">>

\* a query answered with the backend's expired-token error
TxtJwtExpired ==
    <<"G","r","a","p","h","Q","L"," ","e","r","r","o","r","s",":"," ","J","W","T"," ","h","a","s"," ","e","x","p","i","r","e","d"," ","K","T","-","C","T","-","1","1","2","4">>

\* the error code alone
TxtCodeOnly ==
    <<"G","r","a","p","h","Q","L"," ","e","r","r","o","r","s",":"," ","K","T","-","C","T","-","1","1","2","4">>

\* the error code in lower case
TxtCodeLower ==
    <<"G","r","a","p","h","Q","L"," ","e","r","r","o","r","s",":"," ","k","t","-","c","t","-","1","1","2","4">>

\* an authentication error, capitalised
TxtAuthentication ==
    <<"G","r","a","p","h","Q","L"," ","e","r","r","o","r","s",":"," ","I","n","v","a","l","i","d"," ","A","u","t","h","e","n","t","i","c","a","t","i","o","n">>

\* an expiry error in capitals
TxtExpiredUpper ==
    <<"T","O","K","E","N"," ","E","X","P","I","R","E","D">>

\* the backend's rate-limit error
TxtRateLimited ==
    <<"G","r","a","p","h","Q","L"," ","e","r","r","o","r","s",":"," ","T","o","o"," ","m","a","n","y"," ","r","e","q","u","e","s","t","s"," ","K","T","-","C","T","-","1","1","9","9">>

\* the rate-limit code alone
TxtRateCodeOnly ==
    <<"K","T","-","C","T","-","1","1","9","9">>

\* a text matching an authentication and a rate-limit pattern
TxtAuthAndRate ==
    <<"a","u","t","h","e","n","t","i","c","a","t","i","o","n",":"," ","t","o","o"," ","m","a","n","y"," ","r","e","q","u","e","s","t","s">>

\* a transport error
TxtTimeout ==
    <<"C","o","n","n","e","c","t","i","o","n"," ","t","i","m","e","o","u","t">>

\* a transport error that names the HTTP status
TxtUnauthorized ==
    <<"4","0","1"," ","U","n","a","u","t","h","o","r","i","z","e","d">>

\* str() of an exception raised without arguments
TxtEmpty == <<>>

PatUnauthorized == <<"u","n","a","u","t","h","o","r","i","z","e","d">>

PatAuthentication == <<"a","u","t","h","e","n","t","i","c","a","t","i","o","n">>

PatExpired == <<"e","x","p","i","r","e","d">>

PatKT1124 == <<"K","T","-","C","T","-","1","1","2","4">>

PatTooMany == <<"t","o","o"," ","m","a","n","y"," ","r","e","q","u","e","s","t","s">>

PatKT1199 == <<"K","T","-","C","T","-","1","1","9","9">>

\* The exceptions an API call may raise, each named by a short form of its text.
ErrTexts ==
    {"JWT has expired KT-CT-1124",
     "KT-CT-1124",
     "kt-ct-1124",
     "Invalid Authentication",
     "TOKEN EXPIRED",
     "Too many requests KT-CT-1199",
     "KT-CT-1199",
     "authentication: too many requests",
     "Connection timeout"}

\* str(err) of the exception named e
Str(e) ==
    CASE e = "Not authenticated" -> TxtNotAuthenticated
      [] e = "Login failed" -> TxtLoginFailed
      [] e = "JWT has expired KT-CT-1124" -> TxtJwtExpired
      [] e = "KT-CT-1124" -> TxtCodeOnly
      [] e = "kt-ct-1124" -> TxtCodeLower
      [] e = "Invalid Authentication" -> TxtAuthentication
      [] e = "TOKEN EXPIRED" -> TxtExpiredUpper
      [] e = "Too many requests KT-CT-1199" -> TxtRateLimited
      [] e = "KT-CT-1199" -> TxtRateCodeOnly
      [] e = "authentication: too many requests" -> TxtAuthAndRate
      [] e = "Connection timeout" -> TxtTimeout
      [] e = "401 Unauthorized" -> TxtUnauthorized
      [] e \in {"InvalidAuth", "CannotConnect"} -> TxtEmpty

(***************************************************************************)
(* The selective-refresh coordinator (src/coordinator.py)                  *)
(*                                                                         *)
(* One update cycle is one coroutine; nothing else writes the fields it    *)
(* uses, so a cycle is one action.  Its inputs are the time that has       *)
(* passed since the previous cycle and the API calls that fail.            *)
(***************************************************************************)

\* How many update cycles a behaviour holds, and how many API calls the
\* backend fails in it.
MaxCycles == 3
MaxFaults == 1

\* timedelta(minutes=2), timedelta(minutes=15), timedelta(hours=1), in minutes
_devices_interval == 2
_account_interval == 15
_measurements_interval == 60

Buckets == {"devices", "account", "measurements"}

\* Minutes between one cycle and the next: a requested refresh comes a minute
\* after the last cycle, a suspended host comes back later.  The sums reach
\* every interval and the minute before it.
Elapsed == {1, 14, 59}

\* dict[key] = value
Put(f, k, v) == [x \in DOMAIN f \cup {k} |-> IF x = k THEN v ELSE f[x]]

\* What the backend holds.
ViewerAccounts == <<"A1", "A2">>
Device(id, typename, propertyId) ==
    [id |-> id, typename |-> typename, propertyId |-> propertyId,
     currentState |-> "SMART_CONTROL_CAPABLE"]
Inventory(a) ==
    IF a = "A1"
    THEN <<Device("d1", "SmartFlexChargePoint", Some("p1")),
           Device("d2", "SmartFlexVehicle", None)>>
    ELSE <<Device("d3", "SmartFlexChargePoint", Some("p1")),
           Device("d4", "SmartFlexChargePoint", Some("p2"))>>
AccountInfo(a) == <<"account", a>>
FlexDispatches(a) == <<"dispatches", a>>
Measurements(p) == [measurements |-> <<p>>]

\* The API calls a cycle can make; a call is named by its method and argument.
CallKeys ==
    {<<"get_viewer_info", "-">>}
    \cup {<<q, ViewerAccounts[i]>> :
             q \in {"get_account_info", "get_devices", "get_flex_planned_dispatches"},
             i \in 1..Len(ViewerAccounts)}
    \cup {<<"get_property_measurements", p>> : p \in {"p1", "p2"}}

\* The calls of a cycle that the backend fails.
FaultSets == {F \in SUBSET CallKeys : Cardinality(F) <= MaxFaults}

\* The backend fails exactly the calls of F during the cycle that made calls.
Failing(F, calls) ==
    /\ Cardinality(F) <= MaxFaults - faults
    /\ \A k \in F : \E i \in 1..Len(calls) : calls[i] = k
    /\ faults' = faults + Cardinality(F)

\* The query that fills a bucket.
BucketQuery(b) ==
    CASE b = "devices" -> "get_devices"
      [] b = "account" -> "get_account_info"
      [] b = "measurements" -> "get_property_measurements"

\* An interval test that is late by one tick.
Due_late(last, now, interval) ==
    last = None \/ now - Get(last) > interval

\* self._last_X_update is None or now - self._last_X_update >= self._X_interval
Due(last, now, interval) ==
    last = None \/ now - Get(last) >= interval

\* not hasattr(self, 'data') or not self.data
NoData == IF data = None THEN TRUE ELSE DOMAIN Get(data) = {}

\* _refresh_all_data: except Exception as err
RefreshAllExcept(e) ==
    IF Contains(Lower(Str(e)), PatAuthentication)
    THEN "ConfigEntryAuthFailed"
    ELSE "UpdateFailed"

\* _refresh_all_data: the except clause of the account loop
AccountPlaceholders(a, s) ==
    [s EXCEPT !.data.accounts = Put(@, a, <<>>),
              !.data.devices = Put(@, a, <<>>)]

RECURSIVE MeasureDevices(_, _, _, _)
\* _refresh_all_data: for device in devices, the property measurements
MeasureDevices(devices, i, F, s) ==
    IF i > Len(devices) THEN s
    ELSE LET property_id == devices[i].propertyId
         IN  IF property_id # None /\ Get(property_id) \notin DOMAIN s.data.measurements
             THEN LET key == <<"get_property_measurements", Get(property_id)>>
                  IN  MeasureDevices(devices, i + 1, F,
                         [s EXCEPT !.calls = Append(@, key),
                                   !.data.measurements =
                                       Put(@, Get(property_id),
                                           IF key \in F THEN [measurements |-> <<>>]
                                           ELSE Measurements(Get(property_id)))])
             ELSE MeasureDevices(devices, i + 1, F, s)

\* _refresh_all_data: the body of the account loop
RefreshAccount(a, F, s) ==
    LET s1 == [s EXCEPT !.calls = Append(@, <<"get_account_info", a>>)]
    IN  IF <<"get_account_info", a>> \in F THEN AccountPlaceholders(a, s1)
        ELSE
        LET s2 == [s1 EXCEPT !.data.accounts = Put(@, a, AccountInfo(a)),
                             !.calls = Append(@, <<"get_devices", a>>)]
        IN  IF <<"get_devices", a>> \in F THEN AccountPlaceholders(a, s2)
            ELSE
            LET s3 == [s2 EXCEPT !.data.devices = Put(@, a, Inventory(a)),
                                 !.calls = Append(@, <<"get_flex_planned_dispatches", a>>),
                                 !.data.flex_dispatches =
                                     Put(@, a, IF <<"get_flex_planned_dispatches", a>> \in F
                                               THEN <<>> ELSE FlexDispatches(a))]
            IN  MeasureDevices(Inventory(a), 1, F, s3)

RECURSIVE RefreshAccounts(_, _, _, _)
\* _refresh_all_data: for account_number in self.accounts
RefreshAccounts(accts, k, F, s) ==
    IF k > Len(accts) THEN s
    ELSE RefreshAccounts(accts, k + 1, F, RefreshAccount(accts[k], F, s))

\* _refresh_all_data
_refresh_all_data(F, e) ==
    LET first == <<<<"get_viewer_info", "-">>>>
    IN  IF <<"get_viewer_info", "-">> \in F
        THEN [raised |-> Some(e), calls |-> first, data |-> None]
        ELSE LET s == RefreshAccounts(ViewerAccounts, 1, F,
                         [calls |-> first,
                          data |-> [viewer |-> ViewerAccounts, accounts |-> <<>>,
                                    devices |-> <<>>, measurements |-> <<>>,
                                    flex_dispatches |-> <<>>]])
             IN  [raised |-> None, calls |-> s.calls, data |-> Some(s.data)]

RECURSIVE _refresh_devices_data(_, _, _, _)
\* _refresh_devices_data
_refresh_devices_data(accts, k, F, s) ==
    IF k > Len(accts) THEN s
    ELSE _refresh_devices_data(accts, k + 1, F,
            [calls |-> Append(s.calls, <<"get_devices", accts[k]>>),
             section |-> Put(s.section, accts[k],
                             IF <<"get_devices", accts[k]>> \in F THEN <<>>
                             ELSE Inventory(accts[k]))])

RECURSIVE _refresh_account_data(_, _, _, _)
\* _refresh_account_data
_refresh_account_data(accts, k, F, s) ==
    IF k > Len(accts) THEN s
    ELSE _refresh_account_data(accts, k + 1, F,
            [calls |-> Append(s.calls, <<"get_account_info", accts[k]>>),
             section |-> Put(s.section, accts[k],
                             IF <<"get_account_info", accts[k]>> \in F THEN <<>>
                             ELSE AccountInfo(accts[k]))])

\* _refresh_measurements_data: the property ids of the devices in self.data
PropertyIds(devices) ==
    UNION {{Get(devices[a][i].propertyId) :
               i \in {j \in 1..Len(devices[a]) : devices[a][j].propertyId # None}} :
           a \in DOMAIN devices}

RECURSIVE MeasureProperties(_, _, _)
\* _refresh_measurements_data: for property_id in property_ids
MeasureProperties(property_ids, F, s) ==
    IF property_ids = {} THEN s
    ELSE LET p == CHOOSE x \in property_ids : TRUE
             key == <<"get_property_measurements", p>>
         IN  MeasureProperties(property_ids \ {p}, F,
                [calls |-> Append(s.calls, key),
                 section |-> Put(s.section, p,
                                 IF key \in F THEN [measurements |-> <<>>]
                                 ELSE Measurements(p))])

\* _refresh_measurements_data
_refresh_measurements_data(F, s) ==
    MeasureProperties(PropertyIds(Get(data).devices), F, s)

\* How long a full refresh may take, in minutes.
FullSpan == {0, 1}

\* What a cycle leaves behind for the properties to look at.
CycleRecord(path, now, built, calls, F, outcome, err) ==
    Some([path |-> path, now |-> now, before |-> last_update, built |-> built,
          calls |-> calls,
          failed |-> {k \in F : \E i \in 1..Len(calls) : calls[i] = k},
          outcome |-> outcome, err |-> err])

\* _async_update_data when there is no data yet: _refresh_all_data
FullRefresh(e, F, err, span) ==
    /\ generation = "selective"
    /\ cycles < MaxCycles
    /\ Cardinality(F) <= MaxFaults - faults
    /\ NoData
    /\ (<<"get_viewer_info", "-">> \notin F) => err = "Connection timeout"
    /\ LET r == _refresh_all_data(F, err)
           now == clock + e + span
       IN  /\ Failing(F, r.calls)
           /\ clock' = now
           /\ IF r.raised # None
              THEN /\ cycle' = CycleRecord("full", clock + e, {}, r.calls, F,
                                           RefreshAllExcept(Get(r.raised)), r.raised)
                   /\ UNCHANGED <<accounts, data, last_update>>
              ELSE /\ accounts' = ViewerAccounts
                   /\ data' = r.data
                   /\ last_update' = [devices |-> Some(now), account |-> Some(now),
                                      measurements |-> Some(now)]
                   /\ cycle' = CycleRecord("full", clock + e, Buckets, r.calls, F,
                                           "returned", None)
    /\ cycles' = cycles + 1
    /\ UNCHANGED selectiveRest

\* A timestamp taken when the refresh of the bucket is over.
Stamped_end(last, due, now, end) == IF due THEN Some(end) ELSE last

\* if update_X: ...; self._last_X_update = now
Stamped(last, due, now, end) == IF due THEN Some(now) ELSE last

\* _async_update_data when there is data: the selective update; it begins at
\* now and its awaits take span minutes.
SelectiveCycle(e, F, span) ==
    /\ generation = "selective"
    /\ cycles < MaxCycles
    /\ Cardinality(F) <= MaxFaults - faults
    /\ ~NoData
    /\ LET now == clock + e
           update_devices == Due(last_update.devices, now, _devices_interval)
           update_account == Due(last_update.account, now, _account_interval)
           update_measurements ==
               Due(last_update.measurements, now, _measurements_interval)
           devices_data ==
               IF update_devices
               THEN _refresh_devices_data(accounts, 1, F, [calls |-> <<>>, section |-> <<>>])
               ELSE [calls |-> <<>>, section |-> Get(data).devices]
           account_data ==
               IF update_account
               THEN _refresh_account_data(accounts, 1, F,
                        [calls |-> devices_data.calls, section |-> <<>>])
               ELSE [calls |-> devices_data.calls, section |-> Get(data).accounts]
           measurements_data ==
               IF update_measurements
               THEN _refresh_measurements_data(F,
                        [calls |-> account_data.calls, section |-> <<>>])
               ELSE [calls |-> account_data.calls, section |-> Get(data).measurements]
       IN  /\ Failing(F, measurements_data.calls)
           /\ clock' = now + span
           /\ data' = Some([Get(data) EXCEPT !.devices = devices_data.section,
                                             !.accounts = account_data.section,
                                             !.measurements = measurements_data.section])
           /\ last_update' =
                 [devices |-> Stamped(last_update.devices, update_devices, now, now + span),
                  account |-> Stamped(last_update.account, update_account, now, now + span),
                  measurements |-> Stamped(last_update.measurements, update_measurements,
                                           now, now + span)]
           /\ cycle' = CycleRecord("selective", now,
                          {b \in Buckets :
                              \/ b = "devices" /\ update_devices
                              \/ b = "account" /\ update_account
                              \/ b = "measurements" /\ update_measurements},
                          measurements_data.calls, F, "returned", None)
    /\ cycles' = cycles + 1
    /\ UNCHANGED <<accounts, selectiveRest>>

\* The selective update, its duration counted into the time to the next one.
SelectiveUpdate(e, F) == SelectiveCycle(e, F, 0)

\* async_setup_entry has logged in before it builds the coordinator.
InitSelective ==
    /\ TariffIdle
    /\ LookupIdle
    /\ CoordIdle
    /\ HostIdle
    /\ EntityIdle
    /\ generation = "selective"
    /\ driver = "coordinator"
    /\ _token = Some(1)
    /\ _client = Some(1)
    /\ issued = 1
    /\ granted = Some(1)
    /\ frame = [c \in Callers |-> IdleFrame]

NextSelective ==
    \/ \E e \in Elapsed : \E F \in FaultSets : \E err \in ErrTexts : \E span \in FullSpan :
          FullRefresh(e, F, err, span)
    \/ \E e \in Elapsed : \E F \in FaultSets : SelectiveUpdate(e, F)

SpecSelective == InitSelective /\ [][NextSelective]_vars

\* The calls the backend fails beside the timestamps: a device query, a
\* measurement query, or none.
StampFaults ==
    {{}, {<<"get_devices", "A1">>}, {<<"get_property_measurements", "p1">>}}

\* The update cycles with the time they take.
NextStamps ==
    \/ \E e \in Elapsed : \E F \in StampFaults : \E span \in FullSpan :
          FullRefresh(e, F, "Connection timeout", span)
    \/ \E e \in Elapsed : \E F \in StampFaults : \E span \in FullSpan :
          SelectiveCycle(e, F, span)

SpecStamps == InitSelective /\ [][NextStamps]_vars

(***************************************************************************)
(* The single-interval coordinator (custom_components/.../coordinator.py)  *)
(*                                                                         *)
(* The update cycle and a handler are coroutines on one event loop: each   *)
(* runs without interruption from one await to the next.  One action is:   *)
(* the answer to the awaited API call arrives and the coroutine runs on to *)
(* its next API call or to its end.                                        *)
(***************************************************************************)

\* How many update cycles of the single-interval coordinator a behaviour holds.
MaxUpdates == 2

DeviceState(id, typename, currentState) ==
    [id |-> id, typename |-> typename, currentState |-> currentState]

\* What the backend answers get_devices_with_states with.
InventoryStates(a) ==
    IF a = "A1"
    THEN <<DeviceState("d1", "SmartFlexChargePoint", "SMART_CONTROL_CAPABLE"),
           DeviceState("d2", "SmartFlexVehicle", "SMART_CONTROL_NOT_AVAILABLE")>>
    ELSE <<DeviceState("d3", "SmartFlexChargePoint", "BOOSTING"),
           DeviceState("d4", "SmartFlexChargePoint", "SMART_CONTROL_NOT_AVAILABLE")>>

\* The placeholders the cycle stores.
LedgerLess == <<"ledgers", "[]">>
NoInvoice == <<"last_invoice", "None">>
NoPrices == <<"today", "[]", "tomorrow", "[]">>

\* data = {"viewer": viewer_info, "accounts": {}, ...}
EmptyData ==
    [viewer |-> ViewerAccounts, accounts |-> <<>>, billing_info |-> <<>>,
     account_properties |-> <<>>, property_meters |-> <<>>,
     electricity_agreements |-> <<>>, agreement_prices |-> <<>>,
     hourly_prices |-> <<>>, devices |-> <<>>, planned_dispatches |-> <<>>,
     charge_history |-> <<>>, device_preferences |-> <<>>]

\* The answers that are not the plain one: the call raises, or its answer
\* holds no property, no supply point or no active agreement.
EmptyAnswerOps ==
    {"get_account_properties", "get_property_meters", "get_electricity_agreement"}

\* The calls that answer about a device rather than an account.
DeviceOps == {"get_device_preferences", "get_planned_dispatches", "get_charge_history"}

\* The argument that names a call of the cycle in its log.
CallArg(at, accts, b) ==
    IF at.k = 0 THEN "-"
    ELSE IF at.op \in DeviceOps THEN b.devices[accts[at.k]][at.j].id
    ELSE accts[at.k]

\* An API call that is left in flight when its coroutine goes on.
Settled_not(t, calls) == calls

\* await: the coroutine goes on when the answer to its call has arrived
Settled(t, calls) == {x \in calls : x.task # t}

\* The coroutine t sends the call key with the client it finds.
Sent(t, key, client) == [task |-> t, call |-> key, hdr |-> client]

\* the except clauses of the price, agreement, meter and property blocks
NoAgreementPrices(b, a) ==
    [b EXCEPT !.agreement_prices = Put(@, a, <<>>),
              !.hourly_prices = Put(@, a, NoPrices)]
NoAgreement(b, a) ==
    NoAgreementPrices([b EXCEPT !.electricity_agreements = Put(@, a, <<>>)], a)
NoMeters(b, a) ==
    NoAgreement([b EXCEPT !.property_meters = Put(@, a, <<>>)], a)

\* An except clause that empties the device list only.
AccountExcept_devices(b, a) ==
    NoMeters([b EXCEPT !.devices = Put(@, a, <<>>)], a)

\* except Exception as err, of the account loop
AccountExcept(b, a) ==
    NoMeters([b EXCEPT !.accounts = Put(@, a, LedgerLess),
                       !.devices = Put(@, a, <<>>),
                       !.account_properties = Put(@, a, <<>>)], a)

\* get_charge_history: its answer, or what the except clause stores: [] for
\* KT-CT-7899 and [] for any other error
ChargeHistoryExcept(o, history) ==
    IF o = "ok" THEN history
    ELSE IF o = "KT-CT-7899" THEN <<>>
    ELSE <<>>

\* A device loop that asks about connected chargers only.
NextCharger_connected(devices, j) ==
    LET later == {i \in (j + 1)..Len(devices) :
                     /\ devices[i].typename = "SmartFlexChargePoint"
                     /\ devices[i].currentState # "SMART_CONTROL_NOT_AVAILABLE"}
    IN  IF later = {} THEN 0 ELSE CHOOSE i \in later : \A x \in later : i <= x

\* The next charger of the device list after position j, 0 when there is none.
NextCharger(devices, j) ==
    LET later == {i \in (j + 1)..Len(devices) :
                     devices[i].typename = "SmartFlexChargePoint"}
    IN  IF later = {} THEN 0 ELSE CHOOSE i \in later : \A x \in later : i <= x

\* for account_number in self.accounts: the next account, or the end of the loop
NextAccount(k, accts) ==
    IF k < Len(accts) THEN At("get_account_info", k + 1, 0) ELSE At("return", 0, 0)

\* for device in devices: the next charger's first call, with its empty entries
NextDevice(b, k, j, accts) ==
    LET devices == b.devices[accts[k]]
        n == NextCharger(devices, j)
    IN  IF n = 0 THEN [building |-> b, next |-> NextAccount(k, accts)]
        ELSE [building |->
                 [b EXCEPT !.planned_dispatches = Put(@, devices[n].id, <<>>),
                           !.charge_history = Put(@, devices[n].id, <<>>),
                           !.device_preferences = Put(@, devices[n].id, <<>>)],
              next |-> At("get_device_preferences", k, n)]

\* _async_update_data, the body of the account loop: what the answer o to the
\* call at position at stores, and the call that follows
Advance(b, at, o, accts) ==
    LET a == accts[at.k]
        k == at.k
        devices == At("get_devices_with_states", k, 0)
    IN  CASE at.op = "get_account_info" ->
                IF o = "fail"
                THEN [building |-> AccountExcept(b, a), next |-> NextAccount(k, accts)]
                ELSE [building |-> [b EXCEPT !.accounts = Put(@, a, AccountInfo(a))],
                      next |-> At("get_account_billing_info", k, 0)]
          [] at.op = "get_account_billing_info" ->
                [building |-> [b EXCEPT !.billing_info =
                                  Put(@, a, IF o = "fail" THEN NoInvoice
                                            ELSE <<"billing", a>>)],
                 next |-> At("get_account_properties", k, 0)]
          [] at.op = "get_account_properties" ->
                IF o = "fail"
                THEN [building |-> NoMeters([b EXCEPT !.account_properties =
                                                Put(@, a, <<>>)], a),
                      next |-> devices]
                ELSE IF o = "empty"
                THEN [building |-> NoMeters([b EXCEPT !.account_properties =
                                                Put(@, a, <<"properties", "[]">>)], a),
                      next |-> devices]
                ELSE [building |-> [b EXCEPT !.account_properties =
                                       Put(@, a, <<"properties", a>>)],
                      next |-> At("get_property_meters", k, 0)]
          [] at.op = "get_property_meters" ->
                IF o = "fail"
                THEN [building |-> NoMeters(b, a), next |-> devices]
                ELSE IF o = "empty"
                THEN [building |-> NoAgreement([b EXCEPT !.property_meters =
                                                   Put(@, a, <<"meters", "[]">>)], a),
                      next |-> devices]
                ELSE [building |-> [b EXCEPT !.property_meters =
                                       Put(@, a, <<"meters", a>>)],
                      next |-> At("get_electricity_agreement", k, 0)]
          [] at.op = "get_electricity_agreement" ->
                IF o = "fail"
                THEN [building |-> NoAgreement(b, a), next |-> devices]
                ELSE IF o = "empty"
                THEN [building |-> NoAgreementPrices([b EXCEPT !.electricity_agreements =
                                                         Put(@, a, <<"agreement", "None">>)], a),
                      next |-> devices]
                ELSE [building |-> [b EXCEPT !.electricity_agreements =
                                       Put(@, a, <<"agreement", a>>)],
                      next |-> At("get_agreement_prices", k, 0)]
          [] at.op = "get_agreement_prices" ->
                IF o = "fail"
                THEN [building |-> NoAgreementPrices(b, a), next |-> devices]
                ELSE [building |-> [b EXCEPT !.agreement_prices = Put(@, a, <<"prices", a>>),
                                             !.hourly_prices = Put(@, a, <<"hourly", a>>)],
                      next |-> devices]
          [] at.op = "get_devices_with_states" ->
                IF o = "fail"
                THEN [building |-> AccountExcept(b, a), next |-> NextAccount(k, accts)]
                ELSE NextDevice([b EXCEPT !.devices = Put(@, a, InventoryStates(a))],
                                k, 0, accts)
          [] at.op = "get_device_preferences" ->
                [building |->
                    IF o # "ok" THEN b
                    ELSE [b EXCEPT !.device_preferences =
                             Put(@, b.devices[a][at.j].id,
                                 Some([schedules |-> prefs[b.devices[a][at.j].id]]))],
                 next |-> At("get_planned_dispatches", k, at.j)]
          [] at.op = "get_planned_dispatches" ->
                [building |->
                    [b EXCEPT !.planned_dispatches =
                        Put(@, b.devices[a][at.j].id,
                            IF o # "ok" THEN <<>>
                            ELSE <<"dispatches", b.devices[a][at.j].id>>)],
                 next |-> At("get_charge_history", k, at.j)]
          [] at.op = "get_charge_history" ->
                NextDevice([b EXCEPT !.charge_history =
                               Put(@, b.devices[a][at.j].id,
                                   ChargeHistoryExcept(o, <<"history", b.devices[a][at.j].id>>))],
                           k, at.j, accts)

\* _async_update_data: except Exception as err
UpdateExcept(e) ==
    IF \/ Contains(Lower(Str(e)), PatAuthentication)
       \/ Contains(Lower(Str(e)), PatExpired)
       \/ Contains(Str(e), PatKT1124)
    THEN "ConfigEntryAuthFailed"
    ELSE IF \/ Contains(Lower(Str(e)), PatTooMany)
            \/ Contains(Str(e), PatKT1199)
    THEN "UpdateFailed"
    ELSE "UpdateFailed"

\* The backend answers a call plainly, or spends one of its faults.
Answers(o) ==
    IF o = "ok" THEN UNCHANGED faults
    ELSE faults < MaxFaults /\ faults' = faults + 1

\* OctopusSpainAPI.login after its await, called by a coroutine
LoggedIn(o) ==
    IF o = "ok"
    THEN /\ issued' = issued + 1
         /\ _token' = Some(issued + 1)
         /\ _client' = LoginClient(issued + 1)
         /\ granted' = Some(issued + 1)
    ELSE UNCHANGED <<_token, _client, issued, granted>>

\* The cycle's record after its call key was answered, failed or not.
Logged(key, failed, next_key, outcome, err) ==
    Some([Get(cycle) EXCEPT
             !.calls = IF next_key = None THEN @ ELSE Append(@, Get(next_key)),
             !.failed = IF failed THEN @ \cup {key} ELSE @,
             !.outcome = outcome,
             !.err = err])

\* _async_update_data up to its first await: await self.api.login()
UpdateStart ==
    /\ generation = "single"
    /\ update.pc = "idle"
    /\ cycles < MaxUpdates
    /\ cycles' = cycles + 1
    /\ update' = [pc |-> "await", at |-> At("login", 0, 0), building |-> None]
    /\ inflight' = inflight \cup {Sent("cycle", <<"login", "-">>, None)}
    /\ cycle' = Some([path |-> "single", now |-> clock, before |-> last_update,
                      built |-> {}, calls |-> <<<<"login", "-">>>>, failed |-> {},
                      outcome |-> "running", err |-> None])
    /\ UNCHANGED <<accounts, data, faults, _token, _client, issued, granted,
                   handler, singleRest>>

\* login has answered: on False the cycle raises ConfigEntryAuthFailed("Login
\* failed") inside its own try block, else it asks for the viewer
UpdateLoginAnswer(o) ==
    /\ update.pc = "await"
    /\ update.at.op = "login"
    /\ \E x \in inflight : x.task = "cycle"
    /\ Answers(o)
    /\ LoggedIn(o)
    /\ IF o = "ok"
       THEN /\ update' = [update EXCEPT !.at = At("get_viewer_info", 0, 0)]
            /\ inflight' = Settled("cycle", inflight)
                              \cup {Sent("cycle", <<"get_viewer_info", "-">>, _client')}
            /\ cycle' = Logged(<<"login", "-">>, FALSE,
                               Some(<<"get_viewer_info", "-">>), "running", None)
       ELSE /\ update' = IdleUpdate
            /\ inflight' = Settled("cycle", inflight)
            /\ cycle' = Logged(<<"login", "-">>, TRUE, None,
                               UpdateExcept("Login failed"), Some("Login failed"))
    /\ UNCHANGED <<accounts, data, cycles, handler, singleRest>>

\* get_viewer_info has answered
UpdateViewerAnswer(o, err) ==
    /\ update.pc = "await"
    /\ update.at.op = "get_viewer_info"
    /\ \E x \in inflight : x.task = "cycle"
    /\ Answers(o)
    /\ IF o = "ok"
       THEN /\ err = "Connection timeout"
            /\ accounts' = ViewerAccounts
            /\ LET next == NextAccount(0, ViewerAccounts)
               IN  /\ update' = [pc |-> "await", at |-> next, building |-> Some(EmptyData)]
                   /\ inflight' = Settled("cycle", inflight)
                         \cup {Sent("cycle", <<next.op, ViewerAccounts[next.k]>>, _client)}
                   /\ cycle' = Logged(<<"get_viewer_info", "-">>, FALSE,
                                      Some(<<next.op, ViewerAccounts[next.k]>>),
                                      "running", None)
       ELSE /\ update' = IdleUpdate
            /\ inflight' = Settled("cycle", inflight)
            /\ cycle' = Logged(<<"get_viewer_info", "-">>, TRUE, None,
                               UpdateExcept(err), Some(err))
            /\ UNCHANGED accounts
    /\ UNCHANGED <<data, cycles, _token, _client, issued, granted, handler, singleRest>>

\* _async_update_data from the answer o to a call of the account loop up to
\* the next await, or to return data
AccountAnswered(o) ==
    /\ update.pc = "await"
    /\ update.at.k > 0
    /\ \E x \in inflight : x.task = "cycle"
    /\ o = "empty" => update.at.op \in EmptyAnswerOps
    /\ LET b == Get(update.building)
           key == <<update.at.op, CallArg(update.at, accounts, b)>>
           r == Advance(b, update.at, o, accounts)
       IN  IF r.next.op = "return"
           THEN /\ update' = IdleUpdate
                /\ inflight' = Settled("cycle", inflight)
                /\ data' = Some(r.building)
                /\ cycle' = Logged(key, o \notin {"ok", "empty"}, None, "returned", None)
           ELSE /\ update' = [pc |-> "await", at |-> r.next, building |-> Some(r.building)]
                /\ inflight' = Settled("cycle", inflight)
                      \cup {Sent("cycle", <<r.next.op, CallArg(r.next, accounts, r.building)>>,
                                 _client)}
                /\ cycle' = Logged(key, o \notin {"ok", "empty"},
                                   Some(<<r.next.op, CallArg(r.next, accounts, r.building)>>),
                                   "running", None)
                /\ UNCHANGED data
    /\ UNCHANGED <<accounts, cycles, _token, _client, issued, granted, handler, singleRest>>

\* a call of the account loop has answered
UpdateAccountAnswer(o) ==
    /\ Answers(o)
    /\ AccountAnswered(o)

\* How many calls about devices the backend fails in a behaviour.
MaxDeviceFaults == 3

\* What a call about a device is answered with: data, an error, or the
\* error KT-CT-7899 the backend gives for a charger with no charge history.
DeviceOutcomes == {"ok", "fail", "KT-CT-7899"}

\* a call about a charger has answered; the backend fails these calls on a
\* budget of their own
UpdateDeviceAnswer(o) ==
    /\ update.at.op \in DeviceOps
    /\ o = "KT-CT-7899" => update.at.op = "get_charge_history"
    /\ IF o = "ok" THEN UNCHANGED faults
       ELSE faults < MaxDeviceFaults /\ faults' = faults + 1
    /\ AccountAnswered(o)

\* async_setup_entry has logged in before it builds the coordinator.
InitSingle ==
    /\ TariffIdle
    /\ LookupIdle
    /\ CoordIdle
    /\ HostIdle
    /\ EntityIdle
    /\ generation = "single"
    /\ driver = "coordinator"
    /\ _token = Some(1)
    /\ _client = Some(1)
    /\ issued = 1
    /\ granted = Some(1)
    /\ frame = [c \in Callers |-> IdleFrame]

Outcomes == {"ok", "empty", "fail"}

NextSingle ==
    \/ UpdateStart
    \/ \E o \in {"ok", "fail"} : UpdateLoginAnswer(o)
    \/ \E o \in {"ok", "fail"} : \E err \in ErrTexts : UpdateViewerAnswer(o, err)
    \/ \E o \in Outcomes : UpdateAccountAnswer(o)

SpecSingle == InitSingle /\ [][NextSingle]_vars

\* The first update cycle with any of its calls about chargers failing.
NextDevices ==
    \/ cycles = 0 /\ UpdateStart
    \/ UpdateLoginAnswer("ok")
    \/ UpdateViewerAnswer("ok", "Connection timeout")
    \/ \E o \in {"ok", "fail"} : update.at.op \notin DeviceOps /\ UpdateAccountAnswer(o)
    \/ \E o \in DeviceOutcomes : UpdateDeviceAnswer(o)

SpecDevices == InitSingle /\ [][NextDevices]_vars

(***************************************************************************)
(* Service handlers and entity actions (__init__.py, switch.py, number.py) *)
(*                                                                         *)
(* Every one of them sends a mutation, sleeps, and awaits                  *)
(* async_refresh_specific_device; its except clause logs and re-raises.    *)
(***************************************************************************)

ServiceKinds ==
    {"async_start_boost_charge", "async_stop_boost_charge", "async_set_preferences"}
EntityKinds == {"async_turn_on", "async_turn_off", "async_set_native_value"}

\* The mutation a handler sends.
MutationOf(kind) ==
    CASE kind \in {"async_start_boost_charge", "async_turn_on"} -> "start_boost_charge"
      [] kind \in {"async_stop_boost_charge", "async_turn_off"} -> "stop_boost_charge"
      [] OTHER -> "set_smart_flex_device_preferences"

\* A service is called with any device id; an entity acts on its own charger.
Targets(kind) ==
    IF kind \in ServiceKinds THEN {"d1", "d2", "d9"} ELSE {"d1", "d3"}

\* self.data["devices"].items(), in insertion order
Items(devices, accts) ==
    [k \in 1..Len(accts) |-> <<accts[k], devices[accts[k]]>>]

\* OctopusBoostChargeSwitch._get_current_state
_get_current_state(d) ==
    LET device == async_get_device_data(Items(Get(data).devices, accounts), d)
    IN  IF device = None THEN "None" ELSE Get(device).currentState

\* A handler that refreshes whatever became of its mutation.
AfterMutation_always(h, o) ==
    [h EXCEPT !.pc = "sleep", !.at = "sleep",
              !.mutation = IF o = "ok" THEN "ok" ELSE "failed"]

\* The mutation has answered: on success the handler goes to sleep, on
\* failure its except clause logs and re-raises.
AfterMutation(h, o) ==
    IF o = "ok"
    THEN [h EXCEPT !.pc = "sleep", !.at = "sleep", !.mutation = "ok"]
    ELSE [h EXCEPT !.pc = "done", !.at = "-", !.mutation = "failed",
                   !.result = Some("raised")]

\* The handler ends.
Ended(h, result) == [h EXCEPT !.pc = "done", !.at = "-", !.result = Some(result)]

\* A service is called or an entity is operated: the handler runs up to its
\* first await.
HandlerCall(kind, d) ==
    /\ generation = "single"
    /\ handler.pc = "idle"
    /\ data # None
    /\ LET h == [handler EXCEPT !.kind = kind, !.device = d]
           current_state == _get_current_state(d)
       IN  IF kind = "async_turn_on" /\ current_state = "BOOSTING"
           THEN handler' = Ended(h, "returned") /\ UNCHANGED inflight
           ELSE IF kind = "async_turn_on" /\ current_state = "SMART_CONTROL_NOT_AVAILABLE"
           THEN handler' = Ended(h, "raised") /\ UNCHANGED inflight
           ELSE IF kind = "async_turn_off" /\ current_state # "BOOSTING"
           THEN handler' = Ended(h, "returned") /\ UNCHANGED inflight
           ELSE /\ handler' = [h EXCEPT !.pc = "await", !.at = "mutation",
                                        !.mutation = "sent",
                                        !.calls = Append(@, <<MutationOf(kind), d>>)]
                /\ inflight' = inflight \cup {Sent("handler", <<MutationOf(kind), d>>, _client)}
    /\ UNCHANGED <<update, accounts, data, cycle, cycles, faults,
                   _token, _client, issued, granted, singleRest>>

\* The mutation has answered.
HandlerMutationAnswer(o) ==
    /\ handler.pc = "await"
    /\ handler.at = "mutation"
    /\ \E x \in inflight : x.task = "handler"
    /\ Answers(o)
    /\ handler' = AfterMutation(handler, o)
    /\ inflight' = Settled("handler", inflight)
    /\ UNCHANGED <<update, accounts, data, cycle, cycles,
                   _token, _client, issued, granted, singleRest>>

\* A targeted refresh that logs in before it looks for the device.
RefreshStart_login(h) ==
    IF data = None
    THEN [handler |-> Ended(h, "raised"), sends |-> {}]
    ELSE LET account == async_get_account_for_device(Items(Get(data).devices, accounts),
                                                     h.device)
         IN  IF account = None
             THEN [handler |-> Ended([h EXCEPT !.refresh = "full",
                                               !.calls = Append(@, <<"login", "-">>)],
                                     "returned"),
                   sends |-> {}]
             ELSE [handler |-> [h EXCEPT !.pc = "await", !.at = "login",
                                         !.refresh = "device", !.account = account,
                                         !.calls = Append(@, <<"login", "-">>)],
                   sends |-> {Sent("handler", <<"login", "-">>, None)}]

\* async_refresh_specific_device up to its first await.  self.data.get raises
\* AttributeError while self.data is None, and the except clause re-raises;
\* when no account holds the device it asks for a full refresh and returns;
\* else it awaits login.
RefreshStart(h) ==
    IF data = None
    THEN [handler |-> Ended(h, "raised"), sends |-> {}]
    ELSE LET account == async_get_account_for_device(Items(Get(data).devices, accounts),
                                                     h.device)
         IN  IF account = None
             THEN [handler |-> Ended([h EXCEPT !.refresh = "full"], "returned"),
                   sends |-> {}]
             ELSE [handler |-> [h EXCEPT !.pc = "await", !.at = "login",
                                         !.refresh = "device", !.account = account,
                                         !.calls = Append(@, <<"login", "-">>)],
                   sends |-> {Sent("handler", <<"login", "-">>, None)}]

\* asyncio.sleep is over: async_refresh_specific_device runs up to its login,
\* or asks for a full refresh when no account holds the device.
HandlerWake ==
    /\ handler.pc = "sleep"
    /\ handler' = RefreshStart(handler).handler
    /\ inflight' = inflight \cup RefreshStart(handler).sends
    /\ UNCHANGED <<update, accounts, data, cycle, cycles, faults,
                   _token, _client, issued, granted, singleRest>>

\* async_refresh_specific_device: login has answered
HandlerLoginAnswer(o) ==
    /\ handler.pc = "await"
    /\ handler.at = "login"
    /\ \E x \in inflight : x.task = "handler"
    /\ Answers(o)
    /\ LoggedIn(o)
    /\ IF o = "ok"
       THEN /\ handler' = [handler EXCEPT !.at = "get_devices_with_states",
                                          !.calls = Append(@, <<"get_devices_with_states",
                                                                Get(handler.account)>>)]
            /\ inflight' = Settled("handler", inflight)
                  \cup {Sent("handler", <<"get_devices_with_states", Get(handler.account)>>,
                             _client')}
       ELSE /\ handler' = Ended(handler, "raised")
            /\ inflight' = Settled("handler", inflight)
    /\ UNCHANGED <<update, accounts, data, cycle, cycles, singleRest>>

\* async_refresh_specific_device: get_devices_with_states has answered
HandlerDevicesAnswer(o) ==
    /\ handler.pc = "await"
    /\ handler.at = "get_devices_with_states"
    /\ \E x \in inflight : x.task = "handler"
    /\ Answers(o)
    /\ LET account == Get(handler.account)
           devices == InventoryStates(account)
           charger == \E i \in 1..Len(devices) :
                         /\ devices[i].id = handler.device
                         /\ devices[i].typename = "SmartFlexChargePoint"
       IN  IF o # "ok"
           THEN /\ handler' = Ended(handler, "raised")
                /\ inflight' = Settled("handler", inflight)
                /\ UNCHANGED data
           ELSE /\ data' = Some([Get(data) EXCEPT !.devices = Put(@, account, devices)])
                /\ IF charger
                   THEN /\ handler' = [handler EXCEPT !.at = "get_planned_dispatches",
                                                      !.calls = Append(@,
                                                          <<"get_planned_dispatches",
                                                            handler.device>>)]
                        /\ inflight' = Settled("handler", inflight)
                              \cup {Sent("handler",
                                         <<"get_planned_dispatches", handler.device>>, _client)}
                   ELSE /\ handler' = Ended(handler, "returned")
                        /\ inflight' = Settled("handler", inflight)
    /\ UNCHANGED <<update, accounts, cycle, cycles,
                   _token, _client, issued, granted, singleRest>>

\* async_refresh_specific_device: get_planned_dispatches has answered
HandlerDispatchesAnswer(o) ==
    /\ handler.pc = "await"
    /\ handler.at = "get_planned_dispatches"
    /\ \E x \in inflight : x.task = "handler"
    /\ Answers(o)
    /\ data' = Some([Get(data) EXCEPT !.planned_dispatches =
                        Put(@, handler.device,
                            IF o = "ok" THEN <<"dispatches", handler.device>> ELSE <<>>)])
    /\ handler' = Ended(handler, "returned")
    /\ inflight' = Settled("handler", inflight)
    /\ UNCHANGED <<update, accounts, cycle, cycles,
                   _token, _client, issued, granted, singleRest>>

\* The cycle answers plainly here; the handler's calls may fail.
NextHandlers ==
    \/ UpdateStart
    \/ UpdateLoginAnswer("ok")
    \/ UpdateViewerAnswer("ok", "Connection timeout")
    \/ UpdateAccountAnswer("ok")
    \/ \E kind \in ServiceKinds \cup EntityKinds : \E d \in Targets(kind) :
          HandlerCall(kind, d)
    \/ \E o \in {"ok", "fail"} : HandlerMutationAnswer(o)
    \/ HandlerWake
    \/ \E o \in {"ok", "fail"} : HandlerLoginAnswer(o)
    \/ \E o \in {"ok", "fail"} : HandlerDevicesAnswer(o)
    \/ \E o \in {"ok", "fail"} : HandlerDispatchesAnswer(o)

SpecHandlers == InitSingle /\ [][NextHandlers]_vars

(***************************************************************************)
(* Both coordinators, and the API client next to them                      *)
(***************************************************************************)

InitUpdates == InitSelective \/ InitSingle

NextUpdates ==
    \/ NextSelective
    \/ NextSingle

\* The update cycles of either generation.
SpecUpdates == InitUpdates /\ [][NextUpdates]_vars

InitRequests == InitApi \/ InitUpdates

NextRequests ==
    \/ driver = "callers" /\ NextApi
    \/ driver = "coordinator" /\ NextUpdates

\* Everything that sends requests: the API client under any caller, and the
\* update cycles of either generation.
SpecRequests == InitRequests /\ [][NextRequests]_vars

(***************************************************************************)
(* async_setup_entry (__init__.py of either generation)                    *)
(*                                                                         *)
(* Setup logs in, asks for the viewer, builds the coordinator, awaits the  *)
(* first refresh, stores the coordinator, forwards the entry to the        *)
(* platforms and registers the services.                                   *)
(***************************************************************************)

\* const.py: DEFAULT_SCAN_INTERVAL, a number of seconds in the selective-refresh
\* version and a timedelta in the single-interval version
DEFAULT_SCAN_INTERVAL(gen) ==
    IF gen = "selective" THEN <<"int", "120">> ELSE <<"timedelta", "minutes=5">>

\* timedelta(seconds=x): None stands for the TypeError a timedelta argument raises
timedelta_seconds(x) ==
    IF x[1] = "int" THEN Some(x[2]) ELSE None

\* _async_register_services: the services hass.services.async_register is called for
Services(gen) ==
    {"start_boost_charge", "stop_boost_charge", "refresh_charger", "check_charger",
     "car_connected", "car_disconnected"}
    \cup (IF gen = "single" THEN {"set_preferences"} ELSE {})

\* except Exception as err: raise ConfigEntryNotReady from err
SetupExcept(err) == "ConfigEntryNotReady"

\* Setup has ended by raising exc, or by returning True.
SetupEnded(s, outcome) == [s EXCEPT !.pc = "done", !.outcome = Some(outcome)]

\* A first refresh that stores the coordinator whatever the refresh did.
AfterFirstRefresh_stored(s, outcome) ==
    [s EXCEPT !.refresh = IF outcome = "returned" THEN "ok" ELSE "failed",
              !.stored = TRUE, !.pc = "platforms"]

\* await coordinator.async_config_entry_first_refresh() and the lines after it:
\* the host raises ConfigEntryAuthFailed as it is and ConfigEntryNotReady for
\* any other failure of the first cycle; after a cycle that returned, setup
\* stores the coordinator and forwards the entry to the platforms
AfterFirstRefresh(s, outcome) ==
    IF outcome = "returned"
    THEN [s EXCEPT !.refresh = "ok", !.stored = TRUE, !.pc = "platforms"]
    ELSE SetupEnded([s EXCEPT !.refresh = "failed"],
                    IF outcome = "ConfigEntryAuthFailed" THEN outcome
                    ELSE "ConfigEntryNotReady")

\* The host sets up an entry that exists: one kept from an earlier run, or the
\* one the config flow has just created.  async_setup_entry runs up to its
\* first await: await api.login()
SetupStart ==
    /\ setup.pc = "idle"
    /\ flow.pc = "idle" \/ flow.entry
    /\ setup' = [setup EXCEPT !.pc = "login"]
    /\ UNCHANGED <<flow, entityVars, installVars, tariffVars, apiVars, lookupVars, coordVars,
                   singleVars>>

\* login has answered: on False setup raises ConfigEntryAuthFailed("Invalid
\* authentication") inside its try block
SetupLoginAnswer(o) ==
    /\ setup.pc = "login"
    /\ Answers(o)
    /\ LoggedIn(o)
    /\ setup' = IF o = "ok"
                THEN [setup EXCEPT !.pc = "viewer", !.login = "ok"]
                ELSE SetupEnded([setup EXCEPT !.login = "failed"],
                                SetupExcept("Invalid authentication"))
    /\ UNCHANGED <<flow, entityVars, installVars, tariffVars, frame, lookupVars, clock, accounts,
                   data, last_update, cycle, cycles, singleVars>>

\* get_viewer_info has answered; with accounts, setup leaves the try block and
\* builds the coordinator
SetupViewerAnswer(o, err) ==
    /\ setup.pc = "viewer"
    /\ Answers(o)
    /\ setup' =
          IF o = "fail"
          THEN SetupEnded([setup EXCEPT !.viewer = "failed"], SetupExcept(err))
          ELSE IF o = "empty"
          THEN SetupEnded([setup EXCEPT !.viewer = "empty"],
                          SetupExcept("No accounts found"))
          ELSE IF timedelta_seconds(DEFAULT_SCAN_INTERVAL(generation)) = None
          THEN SetupEnded([setup EXCEPT !.viewer = "ok"], "TypeError")
          ELSE [setup EXCEPT !.viewer = "ok", !.pc = "first_refresh"]
    /\ UNCHANGED <<flow, entityVars, installVars, tariffVars, apiVars, lookupVars, clock, accounts,
                   data, last_update, cycle, cycles, singleVars>>

\* async_config_entry_first_refresh runs the coordinator's first cycle
SetupFirstCycle(e, F, err, span) ==
    /\ setup.pc = "first_refresh"
    /\ cycle = None
    /\ FullRefresh(e, F, err, span)

\* the first refresh is over
SetupFirstRefreshOver ==
    /\ setup.pc = "first_refresh"
    /\ cycle # None
    /\ setup' = AfterFirstRefresh(setup, Get(cycle).outcome)
    /\ UNCHANGED <<flow, entityVars, installVars, tariffVars, apiVars, lookupVars, coordVars,
                   singleVars>>

\* async_forward_entry_setups has answered; then _async_register_services
\* registers every service and setup returns True
SetupPlatformsAnswer(o) ==
    /\ setup.pc = "platforms"
    /\ setup' = IF o = "ok"
                THEN SetupEnded([setup EXCEPT !.platforms = "ok",
                                              !.services = Services(generation)], "True")
                ELSE SetupEnded([setup EXCEPT !.platforms = "failed"], "Exception")
    /\ UNCHANGED <<flow, entityVars, installVars, tariffVars, apiVars, lookupVars, coordVars,
                   singleVars>>

NextSetup ==
    \/ SetupStart
    \/ \E o \in {"ok", "fail"} : SetupLoginAnswer(o)
    \/ \E o \in Outcomes : \E err \in ErrTexts : SetupViewerAnswer(o, err)
    \/ \E e \in Elapsed : \E F \in FaultSets : \E err \in ErrTexts : \E span \in FullSpan :
          SetupFirstCycle(e, F, err, span)
    \/ SetupFirstRefreshOver
    \/ \E o \in {"ok", "fail"} : SetupPlatformsAnswer(o)

(***************************************************************************)
(* The config flow (config_flow.py)                                        *)
(***************************************************************************)

\* How often the user submits credentials.
MaxSubmits == 2

\* The exceptions get_viewer_info may raise during validation.
FlowErrTexts ==
    {"Invalid Authentication", "401 Unauthorized", "JWT has expired KT-CT-1124",
     "Connection timeout"}

\* _validate_input: except Exception as err
ValidateExcept(e) ==
    IF \/ Contains(Lower(Str(e)), PatAuthentication)
       \/ Contains(Lower(Str(e)), PatUnauthorized)
    THEN "InvalidAuth"
    ELSE "CannotConnect"

\* async_step_user: the except clauses around _validate_input
StepErrors(exc) ==
    CASE exc = "CannotConnect" -> "cannot_connect"
      [] exc = "InvalidAuth" -> "invalid_auth"
      [] OTHER -> "unknown"

\* async_show_form(step_id="user", errors=errors)
ShowForm(f, exc) ==
    [f EXCEPT !.pc = "form", !.errors = Some(StepErrors(exc)), !.outcome = Some("form")]

\* async_step_user with user_input: _validate_input up to await api.login()
FlowSubmit ==
    /\ flow.pc \in {"idle", "form"}
    /\ setup.pc = "idle"
    /\ flow.submits < MaxSubmits
    /\ flow' = [flow EXCEPT !.pc = "login", !.submits = @ + 1, !.login = "none",
                            !.viewer = "none", !.err = None, !.errors = None,
                            !.outcome = None]
    /\ UNCHANGED <<setup, entityVars, installVars, tariffVars, apiVars, lookupVars, coordVars,
                   singleVars>>

\* login has answered: on False _validate_input raises InvalidAuth inside its
\* own try block
FlowLoginAnswer(o) ==
    /\ flow.pc = "login"
    /\ flow' = IF o = "ok"
               THEN [flow EXCEPT !.pc = "viewer", !.login = "ok"]
               ELSE ShowForm([flow EXCEPT !.login = "failed"], ValidateExcept("InvalidAuth"))
    /\ UNCHANGED <<setup, entityVars, installVars, tariffVars, apiVars, lookupVars, coordVars,
                   singleVars>>

\* get_viewer_info has answered; configured: an entry with this email exists
FlowViewerAnswer(o, err, configured) ==
    /\ flow.pc = "viewer"
    /\ flow' =
          IF o = "fail"
          THEN ShowForm([flow EXCEPT !.viewer = "failed", !.err = Some(err)],
                        ValidateExcept(err))
          ELSE IF o = "empty"
          THEN ShowForm([flow EXCEPT !.viewer = "empty"], ValidateExcept("CannotConnect"))
          ELSE IF configured
          THEN [flow EXCEPT !.pc = "done", !.viewer = "ok", !.outcome = Some("abort")]
          ELSE [flow EXCEPT !.pc = "done", !.viewer = "ok", !.entry = TRUE,
                            !.outcome = Some("create_entry")]
    /\ UNCHANGED <<setup, entityVars, installVars, tariffVars, apiVars, lookupVars, coordVars,
                   singleVars>>

NextFlow ==
    \/ FlowSubmit
    \/ \E o \in {"ok", "fail"} : FlowLoginAnswer(o)
    \/ \E o \in Outcomes : \E err \in FlowErrTexts : \E configured \in BOOLEAN :
          FlowViewerAnswer(o, err, configured)

\* The host has the API client built but not logged in.
InitHost ==
    /\ TariffIdle
    /\ LookupIdle
    /\ CoordIdle
    /\ HostIdle
    /\ EntityIdle
    /\ generation \in {"selective", "single"}
    /\ driver = "coordinator"
    /\ _token = None
    /\ _client = None
    /\ issued = 0
    /\ granted = None
    /\ frame = [c \in Callers |-> IdleFrame]

NextHost ==
    \/ NextSetup
    \/ NextFlow

\* Setup of the entry and the config flow, side by side.
SpecHost == InitHost /\ [][NextHost]_vars

(***************************************************************************)
(* async_refresh_specific_device, called on its own                        *)
(*                                                                         *)
(* The refresh button of a device and the refresh services call the        *)
(* coordinator's method with no mutation in front of it; the method is     *)
(* public, so the host may call it from the moment the coordinator exists. *)
(* The selective-refresh version asks the backend for the one device and   *)
(* puts the answer in the place of the cached entry.                       *)
(***************************************************************************)

\* The device ids the method is called with: the devices of the backend and
\* an id no account holds.
RefreshTargets == {"d1", "d2", "d3", "d9"}

\* The updates that run beside a targeted refresh: the devices bucket is due
\* at each of them, and the backend may fail the device query of the first
\* account.
RefreshElapsed == {2}
RefreshFaults == {{}, {<<"get_devices", "A1">>}}

\* What the backend answers to get_devices(account, device_id): the device as
\* it is now.
FreshDevice(a, device_id) ==
    LET devices == Inventory(a)
        i == CHOOSE j \in 1..Len(devices) : devices[j].id = device_id
    IN  [devices[i] EXCEPT !.currentState = "BOOSTING"]

RECURSIVE ReplaceDevice(_, _, _, _, _)
\* src/coordinator.py, async_refresh_specific_device: for existing_device in
\* current_devices, and the "if not found, add it" that follows the loop
ReplaceDevice(current_devices, device_id, device_data, i, s) ==
    IF i > Len(current_devices)
    THEN IF ~s.device_found /\ device_data # <<>>
         THEN Append(s.updated_devices, device_data[1])
         ELSE s.updated_devices
    ELSE IF current_devices[i].id = device_id
         THEN IF device_data # <<>>
              THEN ReplaceDevice(current_devices, device_id, device_data, i + 1,
                      [updated_devices |-> Append(s.updated_devices, device_data[1]),
                       device_found |-> TRUE])
              ELSE ReplaceDevice(current_devices, device_id, device_data, i + 1, s)
         ELSE ReplaceDevice(current_devices, device_id, device_data, i + 1,
                 [s EXCEPT !.updated_devices = Append(@, current_devices[i])])

\* src/coordinator.py, async_refresh_specific_device up to its first await:
\* with no data, or with no account holding the device, it asks for a full
\* refresh and returns; else it awaits get_devices(account, device_id).
RefreshStartSelective(h) ==
    IF NoData
    THEN [handler |-> Ended([h EXCEPT !.refresh = "full"], "returned"), sends |-> {}]
    ELSE LET account == async_get_account_for_device_selective(
                            Items(Get(data).devices, accounts), h.device)
         IN  IF account = None
             THEN [handler |-> Ended([h EXCEPT !.refresh = "full"], "returned"),
                   sends |-> {}]
             ELSE [handler |-> [h EXCEPT !.pc = "await", !.at = "get_devices",
                                         !.refresh = "device", !.account = account,
                                         !.calls = Append(@, <<"get_devices", h.device>>)],
                   sends |-> {Sent("handler", <<"get_devices", h.device>>, _client)}]

\* async_refresh_specific_device(device_id) is called: it runs up to its
\* first await, or to its end.
RefreshRequested(d) ==
    /\ handler.pc = "idle"
    /\ LET h == [handler EXCEPT !.kind = "async_refresh_specific_device", !.device = d]
           r == IF generation = "selective" THEN RefreshStartSelective(h)
                ELSE RefreshStart(h)
       IN  /\ handler' = r.handler
           /\ inflight' = inflight \cup r.sends
    /\ UNCHANGED <<update, accounts, data, cycle, cycles, faults,
                   _token, _client, issued, granted, singleRest>>

\* src/coordinator.py, async_refresh_specific_device: get_devices has
\* answered, with the device, with an empty list, or with an error that the
\* except clause logs and re-raises.
RefreshDeviceAnswer(o) ==
    /\ handler.pc = "await"
    /\ handler.at = "get_devices"
    /\ \E x \in inflight : x.task = "handler"
    /\ Answers(IF o = "fail" THEN "fail" ELSE "ok")
    /\ inflight' = Settled("handler", inflight)
    /\ IF o = "fail"
       THEN /\ handler' = Ended(handler, "raised")
            /\ UNCHANGED data
       ELSE LET account == Get(handler.account)
                device_data == IF o = "ok"
                               THEN <<FreshDevice(account, handler.device)>>
                               ELSE <<>>
                current_devices == IF account \in DOMAIN Get(data).devices
                                   THEN Get(data).devices[account]
                                   ELSE <<>>
                updated_devices ==
                    ReplaceDevice(current_devices, handler.device, device_data, 1,
                                  [updated_devices |-> <<>>, device_found |-> FALSE])
            IN  /\ data' = Some([Get(data) EXCEPT
                                    !.devices = Put(@, account, updated_devices)])
                /\ handler' = Ended(handler, "returned")
    /\ UNCHANGED <<update, accounts, cycle, cycles,
                   _token, _client, issued, granted, singleRest>>

\* Either version is installed and has logged in; the coordinator has just
\* been built.
InitRefresh ==
    /\ TariffIdle
    /\ LookupIdle
    /\ CoordIdle
    /\ HostIdle
    /\ EntityIdle
    /\ generation \in {"selective", "single"}
    /\ driver = "coordinator"
    /\ _token = Some(1)
    /\ _client = Some(1)
    /\ issued = 1
    /\ granted = Some(1)
    /\ frame = [c \in Callers |-> IdleFrame]

NextRefresh ==
    \/ \E F \in RefreshFaults : \E e \in RefreshElapsed :
          FullRefresh(e, F, "Connection timeout", 0)
    \/ \E F \in RefreshFaults : \E e \in RefreshElapsed : SelectiveUpdate(e, F)
    \/ UpdateStart
    \/ UpdateLoginAnswer("ok")
    \/ UpdateViewerAnswer("ok", "Connection timeout")
    \/ UpdateAccountAnswer("ok")
    \/ \E d \in RefreshTargets : RefreshRequested(d)
    \/ \E o \in Outcomes : RefreshDeviceAnswer(o)
    \/ \E o \in {"ok", "fail"} : HandlerLoginAnswer(o)
    \/ \E o \in {"ok", "fail"} : HandlerDevicesAnswer(o)
    \/ \E o \in {"ok", "fail"} : HandlerDispatchesAnswer(o)

\* A targeted refresh beside the update cycles of either version.
SpecRefresh == InitRefresh /\ [][NextRefresh]_vars

(***************************************************************************)
(* The target time select of a charger (custom_components/.../select.py)   *)
(*                                                                         *)
(* A time of day is a string; it is modelled by its characters, so that    *)
(* split, int and the format of the result are computed as the code does.  *)
(***************************************************************************)

Digits == <<"0", "1", "2", "3", "4", "5", "6", "7", "8", "9">>

\* f"{n:02d}"
Format02(n) ==
    IF n < 10 THEN <<"0", Digits[n + 1]>>
    ELSE <<Digits[(n \div 10) + 1], Digits[(n % 10) + 1]>>

\* f"{hour:02d}:{minute:02d}"
FormatTime(hour, minute) == Format02(hour) \o <<":">> \o Format02(minute)

\* VALID_TIME_OPTIONS: "04:00" to "11:00" in 30-minute steps
VALID_TIME_OPTIONS ==
    {Format02(h) \o <<":">> \o mi : h \in 4..10, mi \in {<<"0", "0">>, <<"3", "0">>}}
    \cup {<<"1", "1", ":", "0", "0">>}

\* time_str.split(":")
Split(s) ==
    LET colons == {i \in 1..Len(s) : s[i] = ":"}
    IN  IF Cardinality(colons) # 1 THEN None
        ELSE LET i == CHOOSE j \in colons : TRUE
             IN  Some([hour |-> SubSeq(s, 1, i - 1), minute |-> SubSeq(s, i + 1, Len(s))])

RECURSIVE IntOf(_)
\* int(text) of a text of digits
IntOf(text) ==
    LET last == CHOOSE n \in 0..9 : Digits[n + 1] = text[Len(text)]
    IN  IF Len(text) = 1 THEN last
        ELSE 10 * IntOf(SubSeq(text, 1, Len(text) - 1)) + last

\* int(text): None stands for ValueError
int(text) ==
    IF text = <<>> \/ \E i \in 1..Len(text) : \A n \in 1..10 : Digits[n] # text[i]
    THEN None
    ELSE Some(IntOf(text))

\* _get_closest_valid_time: round to nearest 30-minute step
RoundToStep(hour, minute) ==
    IF minute < 15 THEN [hour |-> hour, minute |-> 0]
    ELSE IF minute < 45 THEN [hour |-> hour, minute |-> 30]
    ELSE [hour |-> hour + 1, minute |-> 0]

\* _get_closest_valid_time: clamp to valid range
Clamp(t) ==
    IF t.hour < 4 THEN [hour |-> 4, minute |-> 0]
    ELSE IF t.hour > 11 THEN [hour |-> 11, minute |-> 0]
    ELSE t

\* OctopusChargerTargetTimeSelect._get_closest_valid_time
_get_closest_valid_time(s) ==
    LET parts == Split(s)
    IN  IF parts = None THEN Time1030
        ELSE IF int(Get(parts).hour) = None \/ int(Get(parts).minute) = None
        THEN Time1030
        ELSE LET t == Clamp(RoundToStep(Get(int(Get(parts).hour)),
                                        Get(int(Get(parts).minute))))
                 result == FormatTime(t.hour, t.minute)
             IN  IF result \in VALID_TIME_OPTIONS THEN result ELSE Time1030

\* The times of a day.
TimesOfDay == {FormatTime(h, mi) : h \in 0..23, mi \in 0..59}

\* The select entity is asked about any time of the day.
InitClosest ==
    /\ TariffIdle
    /\ ApiIdle
    /\ LookupIdle
    /\ CoordIdle
    /\ HostIdle
    /\ generation = "single"
    /\ prefs = [d \in Chargers |-> BackendDefaults]
    /\ mutations = <<>>
    /\ time_str \in TimesOfDay
    /\ closest = None

\* current_option finds a time that is no option and asks for the closest one.
ClosestValidTime ==
    /\ closest = None
    /\ closest' = Some(_get_closest_valid_time(time_str))
    /\ UNCHANGED <<tariffVars, installVars, apiVars, lookupVars, coordVars, singleVars,
                   hostVars, prefs, mutations, time_str>>

NextClosest == ClosestValidTime

SpecClosest == InitClosest /\ [][NextClosest]_vars

(***************************************************************************)
(* The preference entities of a charger (select.py, number.py)             *)
(*                                                                         *)
(* The target time select and the max percentage number each send the      *)
(* whole schedule: the value they were given and, for the other field,     *)
(* what the coordinator's data holds under device_preferences.  Then they  *)
(* sleep and call async_refresh_specific_device like every handler.        *)
(***************************************************************************)

\* How many preference mutations a behaviour holds.
MaxMutations == 2

\* const.py: DEFAULT_MAX_PERCENTAGE
DEFAULT_MAX_PERCENTAGE == 95

PreferenceKinds == {"async_select_option", "async_set_native_value"}

\* What the entities are given: an option of the select, a time that is no
\* option, a percentage.
Time0700 == <<"0", "7", ":", "0", "0">>
Time1130 == <<"1", "1", ":", "3", "0">>
PreferenceInputs ==
    {[kind |-> "async_select_option", option |-> Some(Time0700), value |-> None],
     [kind |-> "async_select_option", option |-> Some(Time1130), value |-> None],
     [kind |-> "async_set_native_value", option |-> None, value |-> Some(90)]}

\* _get_preferences: the device's entry of device_preferences when it holds
\* schedules, else None
_get_preferences(d) ==
    IF data = None THEN None
    ELSE IF d \notin DOMAIN Get(data).device_preferences THEN None
    ELSE Get(data).device_preferences[d]

\* existing_time[:5] if len(existing_time) > 5 else existing_time
CleanTime(existing_time) ==
    IF Len(existing_time) > 5 THEN SubSeq(existing_time, 1, 5) ELSE existing_time

\* async_select_option: the max percentage to preserve
CurrentMax(preferences) ==
    IF preferences = None THEN DEFAULT_MAX_PERCENTAGE
    ELSE IF Get(preferences).schedules = <<>> THEN DEFAULT_MAX_PERCENTAGE
    ELSE Get(preferences).schedules[1].max

\* async_set_native_value: the target time to preserve
CurrentTime(preferences) ==
    IF preferences = None THEN Time1030
    ELSE IF Get(preferences).schedules = <<>> THEN Time1030
    ELSE IF Get(preferences).schedules[1].time = <<>> THEN Time1030
    ELSE CleanTime(Get(preferences).schedules[1].time)

\* The schedules an entity sends for its input.
NewSchedules(in, d) ==
    IF in.kind = "async_select_option"
    THEN Schedules(Get(in.option), CurrentMax(_get_preferences(d)))
    ELSE Schedules(CurrentTime(_get_preferences(d)), Get(in.value))

\* async_select_option / async_set_native_value up to the await of the
\* mutation.  The host acts on an entity that is available; the select
\* returns at once when the option is not one of VALID_TIME_OPTIONS.
PreferenceCall(in, d) ==
    /\ generation = "single"
    /\ handler.pc \in {"idle", "done"}
    /\ Len(mutations) < MaxMutations
    /\ _get_preferences(d) # None
    /\ LET h == [IdleHandler EXCEPT !.kind = in.kind, !.device = d]
       IN  IF in.kind = "async_select_option" /\ Get(in.option) \notin VALID_TIME_OPTIONS
           THEN /\ handler' = Ended(h, "returned")
                /\ UNCHANGED <<inflight, mutations>>
           ELSE /\ handler' = [h EXCEPT !.pc = "await", !.at = "mutation",
                                        !.mutation = "sent",
                                        !.calls = Append(@, <<MutationOf(in.kind), d>>)]
                /\ inflight' = inflight \cup {Sent("handler", <<MutationOf(in.kind), d>>,
                                                   _client)}
                /\ mutations' = Append(mutations,
                                       [kind |-> in.kind, device |-> d,
                                        option |-> in.option, value |-> in.value,
                                        schedules |-> NewSchedules(in, d),
                                        answer |-> "none"])
    /\ UNCHANGED <<update, accounts, data, cycle, cycles, faults, _token, _client, issued,
                   granted, installVars, tariffVars, lookupVars, hostVars, prefs, time_str,
                   closest, clock, last_update, frame>>

\* set_smart_flex_device_preferences has answered: the backend holds the
\* schedules it was sent, or the call raised.
PreferenceAnswer(o) ==
    /\ handler.pc = "await"
    /\ handler.at = "mutation"
    /\ handler.kind \in PreferenceKinds
    /\ \E x \in inflight : x.task = "handler"
    /\ Answers(o)
    /\ handler' = AfterMutation(handler, o)
    /\ inflight' = Settled("handler", inflight)
    /\ mutations' = [mutations EXCEPT ![Len(mutations)].answer = o]
    /\ prefs' = IF o = "ok"
                THEN [prefs EXCEPT ![handler.device] = mutations[Len(mutations)].schedules]
                ELSE prefs
    /\ UNCHANGED <<update, accounts, data, cycle, cycles, _token, _client, issued,
                   granted, installVars, tariffVars, lookupVars, hostVars, time_str,
                   closest, clock, last_update, frame>>

\* The update cycle answers plainly; the entities act on the first charger.
NextPreferences ==
    \/ UpdateStart
    \/ UpdateLoginAnswer("ok")
    \/ UpdateViewerAnswer("ok", "Connection timeout")
    \/ UpdateAccountAnswer("ok")
    \/ \E in \in PreferenceInputs : PreferenceCall(in, "d1")
    \/ \E o \in {"ok", "fail"} : PreferenceAnswer(o)
    \/ HandlerWake
    \/ HandlerLoginAnswer("ok")
    \/ HandlerDevicesAnswer("ok")
    \/ HandlerDispatchesAnswer("ok")

\* The preference entities beside the update cycle.
SpecPreferences == InitSingle /\ [][NextPreferences]_vars

(***************************************************************************)
(* The selective-refresh coordinator on an API client without a session    *)
(* (src/coordinator.py, src/api.py)                                        *)
(***************************************************************************)

\* _async_update_data while api._client is None: there is no data, so the
\* cycle is _refresh_all_data, whose first statement awaits get_viewer_info;
\* that raises Exception("Not authenticated") before any request is sent, and
\* the except clause of _refresh_all_data classifies it.
UnauthenticatedRefresh(e) ==
    /\ generation = "selective"
    /\ cycles < MaxCycles
    /\ _client = None
    /\ NoData
    /\ LET F == {<<"get_viewer_info", "-">>}
           r == _refresh_all_data(F, "Not authenticated")
       IN  /\ r.raised # None
           /\ cycle' = CycleRecord("full", clock + e, {}, r.calls, F,
                                   RefreshAllExcept(Get(r.raised)), r.raised)
    /\ clock' = clock + e
    /\ cycles' = cycles + 1
    /\ UNCHANGED <<accounts, data, last_update, faults, selectiveRest>>

\* OctopusSpainAPI.__init__ leaves _token and _client None and login sets
\* both; the coordinator is given the client in either state.
InitSession ==
    /\ TariffIdle
    /\ LookupIdle
    /\ CoordIdle
    /\ HostIdle
    /\ EntityIdle
    /\ generation = "selective"
    /\ driver = "coordinator"
    /\ \E session \in {None, Some(1)} :
          /\ _token = session
          /\ _client = session
          /\ granted = session
          /\ issued = Len(session)
    /\ frame = [c \in Callers |-> IdleFrame]

NextSession ==
    \/ \E e \in Elapsed : UnauthenticatedRefresh(e)
    \/ \E e \in Elapsed : \E F \in FaultSets : \E err \in ErrTexts : \E span \in FullSpan :
          _client # None /\ FullRefresh(e, F, err, span)
    \/ \E e \in Elapsed : \E F \in FaultSets : _client # None /\ SelectiveUpdate(e, F)

\* The update cycles of the selective-refresh coordinator, with and without
\* a session.
SpecSession == InitSession /\ [][NextSession]_vars

(***************************************************************************)
(* C1                                                                      *)
(***************************************************************************)

\* The band table as the specification states it.
StatedBand(weekday, hour) ==
    IF weekday \in {5, 6} THEN "valley"
    ELSE IF hour \in (10..13) \cup (18..21) THEN "peak"
    ELSE IF hour \in (8..9) \cup (14..17) \cup (22..23) THEN "standard"
    ELSE "valley"

\* C1: every copy of the tariff rule returns valley on Saturday and Sunday,
\* and on Monday..Friday peak in [10,14) and [18,22), standard in [8,10),
\* [14,18) and [22,24), valley in [0,8); with 0.197/0.122/0.084 a Tuesday
\* 11:00 gives 0.197 and any Saturday hour gives 0.084.
C1_TariffBands ==
    \A c \in PriceCopies :
        price[c] # None =>
            /\ Get(price[c]) = rates[StatedBand(dt.weekday, dt.hour)]
            /\ (rates = [peak |-> 197, standard |-> 122, valley |-> 84] =>
                    /\ (dt.weekday = 1 /\ dt.hour = 11 => Get(price[c]) = 197)
                    /\ (dt.weekday = 5 => Get(price[c]) = 84))

\* All three copies have answered for a Tuesday 11:00 with the stated rates.
C1_Witness ==
    /\ dt = [weekday |-> 1, hour |-> 11]
    /\ rates = [peak |-> 197, standard |-> 122, valley |-> 84]
    /\ \A c \in PriceCopies : price[c] = Some(197)

(***************************************************************************)
(* C2                                                                      *)
(***************************************************************************)

\* The intervals as the specification states them, in minutes.
StatedInterval(b) ==
    CASE b = "devices" -> 2
      [] b = "account" -> 15
      [] b = "measurements" -> 60

\* The bucket had no prior update when the cycle began, or its interval had passed.
StatedDue(c, b) ==
    c.before[b] = None \/ c.now - Get(c.before[b]) >= StatedInterval(b)

\* The cycle sent the bucket's query.
Queried(c, b) == \E i \in 1..Len(c.calls) : c.calls[i][1] = BucketQuery(b)

\* C2 as stated: in every cycle a bucket is fetched if and only if it had no
\* prior update or now - last_update >= interval (2, 15, 60 minutes); the first
\* cycle fetches every bucket.
C2_FetchedIffDue ==
    cycle # None =>
        /\ \A b \in Buckets : (b \in Get(cycle).built) <=> StatedDue(Get(cycle), b)
        /\ cycles = 1 => Get(cycle).built = Buckets

\* C2, amended: a bucket is fetched, and its query sent, only when it is due;
\* a cycle that returns has fetched every due bucket, a selective one with one
\* call per account for devices and account; a cycle raises only when the
\* viewer query of a full refresh fails, and then it fetches nothing.
C2_FetchedIffDueUnlessRaised ==
    cycle # None =>
        LET c == Get(cycle)
        IN  /\ \A b \in Buckets : (b \in c.built \/ Queried(c, b)) => StatedDue(c, b)
            /\ c.outcome = "returned" =>
                  /\ \A b \in Buckets : StatedDue(c, b) => b \in c.built
                  /\ cycles = 1 => c.built = Buckets
                  /\ c.path = "selective" =>
                        \A b \in c.built \cap {"devices", "account"} :
                            \A k \in 1..Len(accounts) :
                                \E i \in 1..Len(c.calls) :
                                    c.calls[i] = <<BucketQuery(b), accounts[k]>>
            /\ c.outcome # "returned" =>
                  /\ c.path = "full"
                  /\ c.calls = <<<<"get_viewer_info", "-">>>>
                  /\ c.failed = {<<"get_viewer_info", "-">>}
                  /\ c.built = {}
                  /\ data = None

\* A selective cycle one minute after the previous one and fifteen minutes
\* after the account bucket's last update fetched the account bucket alone.
C2_Witness ==
    /\ cycle # None
    /\ Get(cycle).path = "selective"
    /\ Get(cycle).built = {"account"}
    /\ Get(cycle).now - Get(Get(cycle).before.account) = 15
    /\ Get(cycle).now - Get(Get(cycle).before.devices) = 1
    /\ Get(cycle).now - Get(Get(cycle).before.measurements) = 15

(***************************************************************************)
(* C3                                                                      *)
(***************************************************************************)

\* The accounts of the cache whose device list holds a device with the id asked for.
AccountsHolding(devs, device_id) ==
    {k \in 1..Len(devs) : \E i \in 1..Len(devs[k][2]) : devs[k][2][i].id = device_id}

\* C3: over a cache of one or more accounts, async_get_device_data(d) returns
\* a cached device with id d when some account's list holds one and None
\* exactly when none does; async_get_account_for_device(d) returns an account
\* whose list holds a device with id d in the first case, None in the second.
C3_DeviceLookup ==
    LET holding == AccountsHolding(cache, query)
    IN  /\ found.device # None =>
              LET r == Get(found.device)
              IN  /\ (r = None) <=> (holding = {})
                  /\ r # None =>
                        /\ Get(r).id = query
                        /\ \E k \in holding : \E i \in 1..Len(cache[k][2]) :
                              cache[k][2][i] = Get(r)
        /\ found.account # None =>
              LET a == Get(found.account)
              IN  /\ (a = None) <=> (holding = {})
                  /\ a # None => \E k \in holding : cache[k][1] = Get(a)

\* Both helpers answered for a device that only the second account holds, next
\* to another device in each account.
C3_Witness ==
    /\ Len(cache) = 2
    /\ query = "d2"
    /\ AccountsHolding(cache, query) = {2}
    /\ Len(cache[1][2]) = 1
    /\ Len(cache[2][2]) = 2
    /\ found.device # None
    /\ Get(found.device) # None
    /\ found.account = Some(Some("A2"))

(***************************************************************************)
(* C4                                                                      *)
(***************************************************************************)

\* C4: a query or mutation method, composite helpers included, that is
\* invoked while no login has ever succeeded fails with "Not authenticated"
\* and sends no request to the backend.
C4_NotAuthenticated ==
    \A c \in Callers :
        (frame[c].method \in QueryMethods(generation) /\ ~frame[c].authed) =>
            /\ frame[c].result = Some("Not authenticated")
            /\ frame[c].sent = 0
            /\ frame[c].wire = None

\* Two composite helpers were invoked before any login succeeded, one of them
\* while the other caller's failed login had already been answered.
C4_Witness ==
    /\ generation = "single"
    /\ granted = None
    /\ frame["caller1"].method = "get_devices"
    /\ frame["caller1"].result = Some("Not authenticated")
    /\ frame["caller2"].method = "get_smart_usage"
    /\ frame["caller2"].result = Some("Not authenticated")

(***************************************************************************)
(* C5                                                                      *)
(***************************************************************************)

\* C5: every query or mutation on the wire carries, as its authorization
\* header, the token obtained by the login that was the most recent
\* successful one when the request was sent; none goes out without a token
\* or with an older one.
C5_BearerToken ==
    \A c \in Callers :
        (frame[c].wire # None /\ frame[c].method # "login") =>
            /\ Get(frame[c].wire).hdr # None
            /\ Get(frame[c].wire).hdr = Get(frame[c].wire).latest

\* After a second successful login a composite method's later query carries
\* the second token.
C5_Witness ==
    /\ granted = Some(2)
    /\ \E c \in Callers :
          /\ frame[c].method = "get_viewer_info"
          /\ frame[c].wire # None
          /\ Get(frame[c].wire).op = "get_account_list"
          /\ Get(frame[c].wire).hdr = Some(2)

(***************************************************************************)
(* C6                                                                      *)
(***************************************************************************)

\* A call of the cycle for account a raised into the account's except clause.
AccountRaised(c, a) ==
    \E q \in {"get_account_info", "get_devices", "get_devices_with_states"} :
        <<q, a>> \in c.failed

\* The cycle called q for account a.
Called(c, q, a) == \E i \in 1..Len(c.calls) : c.calls[i] = <<q, a>>

\* The entry of account a in a section of the cached data.
Entry(section, a) == IF a \in DOMAIN section THEN Some(section[a]) ELSE None

StatedOutcome(e) ==
    IF \/ Contains(Lower(Str(e)), PatAuthentication)
       \/ Contains(Lower(Str(e)), PatExpired)
       \/ Contains(Str(e), PatKT1124)
    THEN "ConfigEntryAuthFailed"
    ELSE "UpdateFailed"

\* C7: an exception that escapes the body of an update cycle is reported as
\* ConfigEntryAuthFailed when its text, lower-cased, contains "authentication"
\* or "expired", or its text contains "KT-CT-1124", and as UpdateFailed
\* otherwise, rate-limit texts included; a text that matches both kinds of
\* pattern gives ConfigEntryAuthFailed.
C7_TwoOutcomes ==
    (cycle # None /\ Get(cycle).err # None) =>
        /\ Get(cycle).outcome \in {"ConfigEntryAuthFailed", "UpdateFailed"}
        /\ Get(cycle).outcome = StatedOutcome(Get(Get(cycle).err))

\* The same statement for the single-interval coordinator alone.
C7_TwoOutcomesSingle ==
    (cycle # None /\ Get(cycle).err # None /\ Get(cycle).path = "single") =>
        Get(cycle).outcome = StatedOutcome(Get(Get(cycle).err))

\* The selective-refresh coordinator looks for "authentication" only.
C7_TwoOutcomesSelective ==
    (cycle # None /\ Get(cycle).err # None /\ Get(cycle).path = "full") =>
        Get(cycle).outcome =
            IF Contains(Lower(Str(Get(Get(cycle).err))), PatAuthentication)
            THEN "ConfigEntryAuthFailed" ELSE "UpdateFailed"

(***************************************************************************)
(* C8                                                                      *)
(***************************************************************************)

\* No call of the cycle's log occurs twice in it.
NoCallTwice(c) ==
    \A i \in 1..Len(c.calls) : \A j \in 1..Len(c.calls) :
        c.calls[i] = c.calls[j] => i = j

InFlightOf(t) == {x \in inflight : x.task = t}

\* C9 as stated: at most one call to the backend is in flight at any moment,
\* however the update cycle and the handlers interleave.
C9_OneCallInFlight == Cardinality(inflight) <= 1

\* C9, amended: each coroutine (the update cycle, a handler) has at most one
\* call in flight, and none while it is not awaiting one; calls of different
\* coroutines may be in flight together.
C9_OneCallPerCoroutine ==
    /\ Cardinality(InFlightOf("cycle")) <= 1
    /\ Cardinality(InFlightOf("handler")) <= 1
    /\ update.pc = "idle" => InFlightOf("cycle") = {}
    /\ handler.pc # "await" => InFlightOf("handler") = {}

\* The switch has sent its boost mutation while a query of the update cycle
\* is still awaiting its answer.
C9_Witness ==
    /\ handler.kind = "async_turn_on"
    /\ \E x \in inflight : x.task = "handler" /\ x.call[1] = "start_boost_charge"
    /\ \E y \in inflight : y.task = "cycle" /\ y.call[1] = "get_devices_with_states"

(***************************************************************************)
(* C10                                                                     *)
(***************************************************************************)

Mutations == {"start_boost_charge", "stop_boost_charge", "set_smart_flex_device_preferences"}

\* C10: a handler that has sent a mutation for a device asks for the refresh
\* of that device only after the mutation has returned successfully; when the
\* mutation fails the handler ends by raising and asks for no refresh.
C10_RefreshAfterMutation ==
    /\ handler.refresh # "none" => handler.mutation = "ok"
    /\ \A x \in InFlightOf("handler") :
          x.call[1] \notin Mutations => handler.mutation = "ok"
    /\ handler.mutation = "failed" =>
          /\ handler.pc = "done"
          /\ handler.result = Some("raised")
          /\ handler.refresh = "none"
          /\ InFlightOf("handler") = {}

\* The number entity has set the preferences of its charger, slept, and
\* refreshed the charger.
C10_Witness ==
    /\ handler.kind = "async_set_native_value"
    /\ handler.device = "d1"
    /\ handler.mutation = "ok"
    /\ handler.refresh = "device"
    /\ handler.pc = "done"
    /\ handler.result = Some("returned")

(***************************************************************************)
(* C11                                                                     *)
(***************************************************************************)

\* Login, the viewer query with its accounts check, and the first refresh have
\* all succeeded.
SetupAllSucceeded ==
    /\ setup.login = "ok"
    /\ setup.viewer = "ok"
    /\ setup.refresh = "ok"
    /\ cycle # None
    /\ Get(cycle).outcome = "returned"

\* C11: async_setup_entry stores the coordinator and registers the services
\* only after login, the viewer and accounts check and the first refresh have
\* all succeeded; when one of them fails, setup has ended by raising, nothing
\* is stored for the entry and no service is registered.
C11_StoredAfterAllSucceeded ==
    /\ setup.stored => SetupAllSucceeded
    /\ setup.services # {} =>
          /\ setup.stored
          /\ SetupAllSucceeded
          /\ setup.services = Services(generation)
    /\ (\/ setup.login = "failed"
        \/ setup.viewer \in {"failed", "empty"}
        \/ setup.refresh = "failed") =>
          /\ setup.pc = "done"
          /\ setup.outcome \in {Some("ConfigEntryNotReady"), Some("ConfigEntryAuthFailed")}
          /\ ~setup.stored
          /\ setup.services = {}

\* Setup of the selective-refresh version has returned True with the
\* coordinator stored and its six services registered.
C11_Witness ==
    /\ generation = "selective"
    /\ setup.outcome = Some("True")
    /\ setup.stored
    /\ SetupAllSucceeded
    /\ setup.services = Services("selective")

(***************************************************************************)
(* C12                                                                     *)
(***************************************************************************)

\* C12: when login fails at the start of an update cycle of the
\* single-interval coordinator, the cycle ends with ConfigEntryAuthFailed and
\* not with UpdateFailed, and it has sent no data query.
C12_LoginFailureIsAuthFailed ==
    (cycle # None /\ Get(cycle).path = "single"
        /\ <<"login", "-">> \in Get(cycle).failed) =>
        /\ Get(cycle).outcome = "ConfigEntryAuthFailed"
        /\ Get(cycle).calls = <<<<"login", "-">>>>

\* What the cycle does when login fails: it sends no data query and ends with
\* UpdateFailed, because the text "Login failed" matches no pattern.
C12_LoginFailureIsUpdateFailed ==
    (cycle # None /\ Get(cycle).path = "single"
        /\ <<"login", "-">> \in Get(cycle).failed) =>
        /\ Get(cycle).outcome = "UpdateFailed"
        /\ Get(cycle).calls = <<<<"login", "-">>>>

(***************************************************************************)
(* C13                                                                     *)
(***************************************************************************)

\* C13: when login fails during async_setup_entry, setup raises
\* ConfigEntryAuthFailed; ConfigEntryNotReady is raised only for the other
\* failures.
C13_SetupLoginFailureIsAuthFailed ==
    /\ (setup.pc = "done" /\ setup.login = "failed") =>
          setup.outcome = Some("ConfigEntryAuthFailed")
    /\ setup.outcome = Some("ConfigEntryNotReady") => setup.login # "failed"

\* What setup does: a failed login ends it with ConfigEntryNotReady.
C13_SetupLoginFailureIsNotReady ==
    (setup.pc = "done" /\ setup.login = "failed") =>
        setup.outcome = Some("ConfigEntryNotReady")

(***************************************************************************)
(* C14                                                                     *)
(***************************************************************************)

\* C14: in the config flow, the form is shown again with "invalid_auth" when
\* login fails; "cannot_connect" is shown only when the failure is not a login
\* failure; an entry is created only when login and the viewer query both
\* succeeded.
C14_InvalidAuthOnLoginFailure ==
    /\ (flow.pc = "form" /\ flow.login = "failed") =>
          flow.errors = Some("invalid_auth")
    /\ flow.errors = Some("cannot_connect") => flow.login # "failed"
    /\ flow.entry => flow.login = "ok" /\ flow.viewer = "ok"

\* What the flow does: a failed login shows "cannot_connect"; "invalid_auth"
\* is shown only for a viewer query whose error text names authentication.
C14_CannotConnectOnLoginFailure ==
    /\ (flow.pc = "form" /\ flow.login = "failed") =>
          flow.errors = Some("cannot_connect")
    /\ flow.errors = Some("invalid_auth") =>
          flow.viewer = "failed" /\ flow.err \in {Some("Invalid Authentication"),
                                                   Some("401 Unauthorized")}
    /\ flow.entry => flow.login = "ok" /\ flow.viewer = "ok"

(***************************************************************************)
(* C15                                                                     *)
(***************************************************************************)

\* How many times login occurs in a log of calls.
Logins(calls) ==
    Cardinality({i \in 1..Len(calls) : calls[i] = <<"login", "-">>})

\* The position of the first login in a log of calls, 0 when there is none.
FirstLogin(calls) ==
    IF Logins(calls) = 0 THEN 0
    ELSE CHOOSE i \in 1..Len(calls) :
             /\ calls[i] = <<"login", "-">>
             /\ \A j \in 1..(i - 1) : calls[j] # <<"login", "-">>

\* The calls of a log that ask the backend for data.
DataQueries(calls) ==
    {i \in 1..Len(calls) :
        calls[i][1] \notin {"login"} \cup Mutations}

\* C15: an update cycle of the single-interval coordinator logs in exactly
\* once, and its login has answered before any of its data queries is sent; a
\* targeted device refresh logs in exactly once when the device is found in
\* the cache, before its queries, and not at all when it falls back to a full
\* refresh.
C15_OneLoginFirst ==
    /\ (cycle # None /\ Get(cycle).path = "single") =>
          /\ Logins(Get(cycle).calls) = 1
          /\ Get(cycle).calls[1] = <<"login", "-">>
          /\ \A x \in InFlightOf("cycle") :
                x.call = <<"login", "-">> => Len(Get(cycle).calls) = 1
    /\ handler.refresh = "device" =>
          /\ Logins(handler.calls) = 1
          /\ \A i \in DataQueries(handler.calls) : FirstLogin(handler.calls) < i
          /\ \A x \in InFlightOf("handler") :
                x.call = <<"login", "-">> => DataQueries(handler.calls) = {}
    /\ handler.refresh \in {"full", "none"} => Logins(handler.calls) = 0

\* The boost service has refreshed its charger with one login between the
\* mutation and the two queries, beside an update cycle that has returned.
C15_Witness ==
    /\ handler.kind = "async_start_boost_charge"
    /\ handler.pc = "done"
    /\ handler.refresh = "device"
    /\ handler.calls = << <<"start_boost_charge", "d1">>, <<"login", "-">>,
                          <<"get_devices_with_states", "A1">>,
                          <<"get_planned_dispatches", "d1">> >>
    /\ cycle # None
    /\ Get(cycle).outcome = "returned"
    /\ Logins(Get(cycle).calls) = 1

(***************************************************************************)
(* C16                                                                     *)
(***************************************************************************)

\* The step in which the targeted refresh of the selective-refresh version
\* writes the answer of get_devices into the cache and returns.
RefreshWrites ==
    /\ handler.pc = "await"
    /\ handler.at = "get_devices"
    /\ handler'.pc = "done"
    /\ handler'.result = Some("returned")

\* The entries of a device list that are not the device.
OtherDevices(devices, device_id) ==
    SelectSeq(devices, LAMBDA x : x.id # device_id)

\* The places of a device list that hold the device.
PlacesOf(devices, device_id) ==
    {i \in 1..Len(devices) : devices[i].id = device_id}

\* What every targeted refresh leaves alone: the other devices of the account
\* and their order, the lists of the other accounts, the other sections.
RefreshFrame ==
    LET A == Get(handler.account)
        before == Get(data).devices
        after == Get(data').devices
    IN  /\ DOMAIN after = DOMAIN before
        /\ \A a \in DOMAIN before \ {A} : after[a] = before[a]
        /\ [Get(data') EXCEPT !.devices = before] = Get(data)
        /\ OtherDevices(after[A], handler.device) = OtherDevices(before[A], handler.device)

\* C16: when the targeted refresh of the selective-refresh version returns
\* for a device cached under account A, the other devices of A are unchanged
\* and in the same order, the lists of the other accounts and the other
\* sections are unchanged, and A's list holds exactly one entry with the
\* device's id, the freshly fetched one.
C16_OnlyThatDeviceUpdated ==
    [][RefreshWrites =>
          LET A == Get(handler.account)
              after == Get(data').devices[A]
          IN  /\ RefreshFrame
              /\ Cardinality(PlacesOf(after, handler.device)) = 1
              /\ \A i \in PlacesOf(after, handler.device) :
                    after[i] = FreshDevice(A, handler.device)]_vars

\* What does hold: the frame is kept, and the account's list holds the
\* freshly fetched device at most once and no other entry with its id.
C16_FrameKept ==
    [][RefreshWrites =>
          LET A == Get(handler.account)
              after == Get(data').devices[A]
          IN  /\ RefreshFrame
              /\ Cardinality(PlacesOf(after, handler.device)) <= 1
              /\ \A i \in PlacesOf(after, handler.device) :
                    after[i] = FreshDevice(A, handler.device)]_vars

(***************************************************************************)
(* C17                                                                     *)
(***************************************************************************)

\* The step in which async_refresh_specific_device is called.
RefreshIsCalled ==
    /\ handler.pc = "idle"
    /\ handler'.kind = "async_refresh_specific_device"

\* The coordinator has no cached data, or no account's list holds the device
\* the method is called with.
NotCached ==
    IF NoData THEN TRUE
    ELSE async_get_account_for_device(Items(Get(data).devices, accounts),
                                      handler'.device) = None

\* The method asked for a full refresh, sent no query, left the cache alone
\* and returned.
FellBackToFullRefresh ==
    /\ handler'.refresh = "full"
    /\ handler'.calls = <<>>
    /\ inflight' = inflight
    /\ data' = data
    /\ handler'.pc = "done"
    /\ handler'.result = Some("returned")

C17_FullRefreshWhenDeviceUnknown ==
    [][(RefreshIsCalled /\ NotCached /\ (generation = "selective" \/ data # None))
          => FellBackToFullRefresh]_vars

\* Without data the single-interval version raises and asks for nothing.
C17_RaisesWithoutData ==
    [][(RefreshIsCalled /\ generation = "single" /\ data = None)
          => /\ handler'.result = Some("raised")
             /\ handler'.refresh = "none"]_vars

(***************************************************************************)
(* C18                                                                     *)
(***************************************************************************)

\* The step of a selective update: the coordinator has data and a cycle runs.
SelectiveStep ==
    /\ ~NoData
    /\ cycles' = cycles + 1

\* The cache section a bucket fills.
Section(d, b) ==
    CASE b = "devices" -> d.devices
      [] b = "account" -> d.accounts
      [] b = "measurements" -> d.measurements

\* C18: a selective update returns the section of every bucket that is not
\* due as it was and leaves its timestamp alone, sets the timestamp of every
\* bucket it fetched to the time the cycle began, and never changes the
\* viewer and flex_dispatches sections.
C18_SelectiveFrame ==
    [][SelectiveStep =>
          LET c == Get(cycle')
          IN  /\ c.path = "selective"
              /\ \A b \in Buckets :
                    ~StatedDue(c, b) =>
                        /\ Section(Get(data'), b) = Section(Get(data), b)
                        /\ last_update'[b] = last_update[b]
              /\ \A b \in c.built : last_update'[b] = Some(c.now)
              /\ Get(data').viewer = Get(data).viewer
              /\ Get(data').flex_dispatches = Get(data).flex_dispatches]_vars

\* A selective update that took a minute has fetched the devices alone: their
\* timestamp is the time it began, the other two are older, and the account
\* and measurements sections are those of the full refresh.
C18_Witness ==
    /\ cycle # None
    /\ Get(cycle).path = "selective"
    /\ Get(cycle).built = {"devices"}
    /\ clock = Get(cycle).now + 1
    /\ last_update.devices = Some(Get(cycle).now)
    /\ last_update.account = Get(cycle).before.account
    /\ last_update.measurements = Get(cycle).before.measurements
    /\ Get(last_update.account) < Get(cycle).now
    /\ Get(data).accounts = [a \in {"A1", "A2"} |-> AccountInfo(a)]
    /\ Get(data).devices["A1"] = <<>>
    /\ Get(data).viewer = ViewerAccounts

(***************************************************************************)
(* C19                                                                     *)
(***************************************************************************)

\* The minutes since midnight of a time "HH:MM".
MinutesOf(s) ==
    60 * IntOf(SubSeq(s, 1, 2)) + IntOf(SubSeq(s, 4, 5))

\* The distance in minutes between two times of a day.
Distance(s, t) ==
    IF MinutesOf(s) >= MinutesOf(t) THEN MinutesOf(s) - MinutesOf(t)
    ELSE MinutesOf(t) - MinutesOf(s)

\* C19: for every time HH:MM of the day _get_closest_valid_time returns an
\* option of VALID_TIME_OPTIONS at minimal distance in minutes from it.
C19_ClosestOption ==
    closest # None =>
        /\ Get(closest) \in VALID_TIME_OPTIONS
        /\ \A option \in VALID_TIME_OPTIONS :
              Distance(Get(closest), time_str) <= Distance(option, time_str)

\* What does hold: the result is an option, and it is a closest one for
\* every time but 11:15 to 11:44, for which it is 10:30.
C19_ClosestOptionBut1130 ==
    closest # None =>
        /\ Get(closest) \in VALID_TIME_OPTIONS
        /\ IF MinutesOf(time_str) \in (11 * 60 + 15)..(11 * 60 + 44)
           THEN Get(closest) = Time1030
           ELSE \A option \in VALID_TIME_OPTIONS :
                   Distance(Get(closest), time_str) <= Distance(option, time_str)

(***************************************************************************)
(* C20                                                                     *)
(***************************************************************************)

\* The two entities have sent one mutation each for the same charger, and
\* the backend accepted the first.
SetOneThenTheOther ==
    /\ Len(mutations) >= 2
    /\ mutations[1].answer = "ok"
    /\ mutations[1].kind # mutations[2].kind
    /\ mutations[1].device = mutations[2].device

\* The target time and the max percentage the entities were given.
GivenTime ==
    IF mutations[1].kind = "async_select_option"
    THEN Get(mutations[1].option) ELSE Get(mutations[2].option)
GivenMax ==
    IF mutations[1].kind = "async_set_native_value"
    THEN Get(mutations[1].value) ELSE Get(mutations[2].value)

\* C20: when the target time is set to T through the select and afterwards
\* the max percentage to P through the number, or the other way round, with
\* any update cycles in between, the schedules of the second mutation carry
\* time T and max P for all seven days of the week.
C20_OtherPreferencePreserved ==
    SetOneThenTheOther =>
        /\ Len(mutations[2].schedules) = 7
        /\ \A i \in 1..7 :
              /\ mutations[2].schedules[i].dayOfWeek = DAYS_OF_WEEK[i]
              /\ mutations[2].schedules[i].time = GivenTime
              /\ mutations[2].schedules[i].max = GivenMax

\* What does hold: every mutation carries seven schedules, one for each day,
\* all with one time and one max, and the field the entity was given carries
\* the given value.
C20_GivenPreferenceCarried ==
    \A n \in 1..Len(mutations) :
        LET mu == mutations[n]
        IN  /\ Len(mu.schedules) = 7
            /\ \A i \in 1..7 :
                  /\ mu.schedules[i].dayOfWeek = DAYS_OF_WEEK[i]
                  /\ mu.schedules[i].time = mu.schedules[1].time
                  /\ mu.schedules[i].max = mu.schedules[1].max
            /\ mu.kind = "async_select_option" => mu.schedules[1].time = Get(mu.option)
            /\ mu.kind = "async_set_native_value" => mu.schedules[1].max = Get(mu.value)

(***************************************************************************)
(* C21                                                                     *)
(***************************************************************************)

\* The chargers of a device list.
ChargersOf(devices) ==
    {devices[i].id : i \in {j \in 1..Len(devices) :
                               devices[j].typename = "SmartFlexChargePoint"}}

\* How many times a call occurs in a log of calls.
Times(calls, key) == Cardinality({i \in 1..Len(calls) : calls[i] = key})

\* The placeholder of the section a call about a device fills.
DevicePlaceholder(d, op, id) ==
    CASE op = "get_device_preferences" -> d.device_preferences[id] = None
      [] op = "get_planned_dispatches" -> d.planned_dispatches[id] = <<>>
      [] op = "get_charge_history" -> d.charge_history[id] = <<>>

FailedNotAuthenticated ==
    /\ cycle # None
    /\ _client = None
    /\ Get(cycle).path = "full"
    /\ Get(cycle).calls = <<<<"get_viewer_info", "-">>>>
    /\ Get(cycle).err = Some("Not authenticated")

C22_NoSessionIsUpdateFailed ==
    /\ FailedNotAuthenticated =>
          /\ Get(cycle).outcome = "UpdateFailed"
          /\ ~Contains(Lower(Str(Get(Get(cycle).err))), PatAuthentication)
    /\ _client = None =>
          /\ data = None
          /\ cycle # None => FailedNotAuthenticated

C22_Witness ==
    /\ FailedNotAuthenticated
    /\ cycles = MaxCycles
    /\ Get(cycle).outcome = "UpdateFailed"

=============================================================================
